---- MODULE Spec2Model ----
(***************************************************************************)
(* Octahedral impostor LOD forest (src/rng.js, lines 19-1342): the atlas   *)
(* baker, the direction codec and the per-frame LOD / cull / compaction    *)
(* manager, as a state machine; with one slot of the scatter system        *)
(* (src/scatter.js) and the effect of the React forest component           *)
(* (src/OctahedralImpostorForest.tsx).                                     *)
(*                                                                         *)
(* Geometry is one-dimensional: every instance, the camera and the view    *)
(* frustum lie on the x axis (y = z = 0), so that dx*dx + dy*dy + dz*dz is *)
(* dx*dx and the shader's length() is |dx|, an integer.  treeScale is 1.   *)
(*                                                                         *)
(* Specifications:                                                         *)
(*   Spec            a forest from creation on: update() and the setters   *)
(*   SpecFirstFrame  creation and the first update(), over every           *)
(*                   lodDistance / fadeRange / lod2Distance                *)
(*   SpecFrames      a built forest: update() and the setters, with the    *)
(*                   camera at either end of the row                       *)
(*   SpecDispose     a built forest: first update(), a setter, dispose()   *)
(*   SpecBake        one bakeAtlas call on any hierarchy and options       *)
(*   SpecSteps       bakeAtlas calls sprite by sprite, one after another   *)
(*   SpecSphere      the bake's bounding sphere, without and with a proxy  *)
(*   SpecCodec       decode then encode of one atlas cell                  *)
(*   SpecBillboard   the sprite cells of the impostor's vertex stage       *)
(*   SpecVertex      one billboard vertex: direction, basis, sample UVs    *)
(*   SpecScatter     a scatter slot: reloads, loads, placement and LOD     *)
(*   SpecEffect      effect runs, their cleanups and their awaits          *)
(***************************************************************************)
EXTENDS Integers, Sequences, FiniteSets, TLC

\* ------------------------------------------------------------------ bounds
MaxTrees == 2
MaxPos == 2
MaxLod == 2
MaxFade == 3
MaxLod2 == 5
MaxFrames == 2
MaxSetCalls == 1
MaxMeshes == 2
MaxSprites == 2
MaxGrid == 5

\* ------------------------------------------------------------- small helpers
Abs(x) == IF x < 0 THEN -x ELSE x

Min2(a, b) == IF a < b THEN a ELSE b

Max2(a, b) == IF a > b THEN a ELSE b

Clamp(x, lo, hi) == Max2(lo, Min2(x, hi))

NoValue == "none"

\* ---------------------------------------------------------------- variables
VARIABLES
  pc,               \* position of createOctahedralImpostorForest
  opts,             \* the options it was called with
  root,             \* the loaded model scene
  bakeIn,           \* arguments of the last bakeAtlas call
  bakeOut,          \* what that call did and returned
  group,            \* the forest group and its children (NoGroup: not created)
  _lodDist, _lod2Dist, _fadeRange,
  _uLodDist, _uFadeRange, _uLod2Dist,
  uNearLodDist, uNearFadeRange,
  posX, allCenters, cullRadius,
  innerDistSq, outerDistSq, inner2DistSq, outer2DistSq,
  _frameCount,
  _lastNearCount, _lastLod1Count, _lastLod2Count,
  _compactNear,     \* scratch rows of near transforms
  nearRows, nearCount,            \* nearMeshes[*].instanceMatrix / .count
  impostorRows, compactCenters, impostorCount,
  wireframeRows, wireframeCount,
  megaRows, compactCenters2, megaCount,
  cameraPosition,   \* camera.position.x of the last update() (shader uniform)
  frustum,          \* frustum argument of the last update()
  setCalls,         \* number of setter calls so far (bounded by MaxSetCalls)
  disposed,         \* the resources dispose() has been called on
  codec,            \* direction codec round trip under test
  sphereJob,        \* bounding sphere of a hierarchy, without and with a proxy
  bakeRun,          \* a bakeAtlas call in progress, sprite by sprite
  _whiteTexByCtx,   \* WebGL2 context -> its 1x1 white placeholder texture
  billboard,        \* the sprite cells the impostor's vertex stage picks
  vertex,           \* one billboard vertex: direction, basis and sample UVs
  scatter,          \* one slot of createScatter: meshes, group, loads in flight
  effect            \* runs of the OctahedralImpostorForest effect and the scene

forestVars == <<pc, opts, root, group, _lodDist, _lod2Dist, _fadeRange,
  _uLodDist, _uFadeRange, _uLod2Dist, uNearLodDist, uNearFadeRange,
  posX, allCenters, cullRadius,
  innerDistSq, outerDistSq, inner2DistSq, outer2DistSq, _frameCount,
  _lastNearCount, _lastLod1Count, _lastLod2Count, _compactNear,
  nearRows, nearCount, impostorRows, compactCenters, impostorCount,
  wireframeRows, wireframeCount, megaRows, compactCenters2, megaCount,
  cameraPosition, frustum, setCalls, disposed>>

bakeVars == <<bakeIn, bakeOut>>

stepVars == <<bakeRun, _whiteTexByCtx>>

moreVars == <<vertex, scatter, effect>>

sideVars == <<codec, sphereJob, stepVars, billboard, moreVars>>

vars == <<forestVars, bakeVars, sideVars>>

\* ------------------------------------------------------------ mesh hierarchy
\* A mesh of the source model: `count` is geometry.attributes.position.count
\* (`pos` FALSE: no position attribute), `sz` the size of its world-space bounding box.
QuadMesh == [name |-> "quad", pos |-> TRUE, count |-> 4, sz |-> <<10, 10, 0>>]

CardMesh == [name |-> "card", pos |-> TRUE, count |-> 100, sz |-> <<100, 100, 1>>]

TrunkMesh == [name |-> "trunk", pos |-> TRUE, count |-> 100, sz |-> <<10, 20, 10>>]

LeafMesh == [name |-> "leaf", pos |-> TRUE, count |-> 17, sz |-> <<50, 50, 1>>]

BareMesh == [name |-> "bare", pos |-> FALSE, count |-> 0, sz |-> <<0, 0, 0>>]

MeshKinds == {QuadMesh, CardMesh, TrunkMesh, LeafMesh, BareMesh}

Max3(t) == Max2(t[1], Max2(t[2], t[3]))

Min3(t) == Min2(t[1], Min2(t[2], t[3]))

\* No flat-geometry filter, as in src/octahedralImpostor.js:208-216.
IsFlatGeometryNone(g) == FALSE

\* minDim / maxDim < 0.02, in integers: 50 * minDim < maxDim.
IsFlatGeometry(g) ==
  IF ~g.pos THEN FALSE
  ELSE IF g.count <= 16 THEN TRUE
  ELSE Max3(g.sz) > 0 /\ 50 * Min3(g.sz) < Max3(g.sz)

RECURSIVE FilterMeshes(_)
FilterMeshes(scene) ==
  IF scene = <<>> THEN <<>>
  ELSE IF IsFlatGeometry(Head(scene)) THEN FilterMeshes(Tail(scene))
  ELSE <<Head(scene)>> \o FilterMeshes(Tail(scene))

\* ---------------------------------------------------------- bounding sphere
\* A hierarchy is a sequence of nodes below the scene root (node 0, not a
\* mesh).  Node k is a mesh of one of the kinds above or a plain group, hangs
\* under `parent` (0 or an earlier node) and has its world matrix translate it
\* to x = at; the children of a node are visited in index order.
GroupNode == [name |-> "group", pos |-> FALSE, count |-> 0, sz |-> <<0, 0, 0>>]

IsMesh(h, k) == k > 0 /\ h[k].mesh # GroupNode

\* THREE.Sphere on the x axis, kept as the interval it covers:
\* center = (lo + hi) / 2, radius = (hi - lo) / 2; makeEmpty() has radius -1.
EmptySphere == [lo |-> 1, hi |-> -1]

IsEmptySphere(s) == s.hi < s.lo

\* s.copy(g.boundingSphere).applyMatrix4(o.matrixWorld): the geometry's own
\* sphere has half its largest extent as radius.
WorldSphere(node) ==
  [lo |-> node.at - (Max3(node.mesh.sz) \div 2),
   hi |-> node.at + (Max3(node.mesh.sz) \div 2)]

\* out.union(s): copy into an empty sphere, else grow to cover both.
Union(out, s) ==
  IF IsEmptySphere(s) THEN out
  ELSE IF IsEmptySphere(out) THEN s
  ELSE [lo |-> Min2(out.lo, s.lo), hi |-> Max2(out.hi, s.hi)]

\* modelScene.traverse(cb): the nodes of the subtree of p, parents first.
RECURSIVE Traverse(_, _), TraverseChildren(_, _, _)
Traverse(h, p) == (IF p > 0 THEN <<p>> ELSE <<>>) \o TraverseChildren(h, p, 1)

TraverseChildren(h, p, k) ==
  IF k > Len(h) THEN <<>>
  ELSE (IF h[k].parent = p THEN Traverse(h, k) ELSE <<>>)
         \o TraverseChildren(h, p, k + 1)

\* The meshes bakeAtlas collects for rendering (lines 352-360).
CollectMeshes(h) ==
  SelectSeq(Traverse(h, 0),
            LAMBDA k : IsMesh(h, k) /\ ~IsFlatGeometry(h[k].mesh))

\* walk(o) of computeBoundingSphere: the meshes whose spheres are unioned, in
\* order.  With skipFlat, a flat mesh returns before its children are walked.
RECURSIVE walk(_, _, _), walkChildren(_, _, _, _)
walk(h, o, skipFlat) ==
  IF IsMesh(h, o) /\ skipFlat /\ IsFlatGeometry(h[o].mesh) THEN <<>>
  ELSE (IF IsMesh(h, o) THEN <<o>> ELSE <<>>) \o walkChildren(h, o, 1, skipFlat)

walkChildren(h, o, k, skipFlat) ==
  IF k > Len(h) THEN <<>>
  ELSE (IF h[k].parent = o THEN walk(h, k, skipFlat) ELSE <<>>)
         \o walkChildren(h, o, k + 1, skipFlat)

RECURSIVE UnionAll(_, _, _)
UnionAll(h, ks, out) ==
  IF ks = <<>> THEN out
  ELSE UnionAll(h, Tail(ks), Union(out, WorldSphere(h[Head(ks)])))

computeBoundingSphere(h, obj, skipFlat) ==
  UnionAll(h, walk(h, obj, skipFlat), EmptySphere)

\* radius^3 of a sphere, times 8.
Vol8(s) == (s.hi - s.lo) * (s.hi - s.lo) * (s.hi - s.lo)

\* The loop of lines 366-376: the first mesh of the largest volume above 0.
RECURSIVE LargestMesh(_, _, _, _)
LargestMesh(h, ms, best, bestVol) ==
  IF ms = <<>> THEN best
  ELSE LET v == Vol8(computeBoundingSphere(h, Head(ms), FALSE))
       IN  IF v > bestVol THEN LargestMesh(h, Tail(ms), Head(ms), v)
           ELSE LargestMesh(h, Tail(ms), best, bestVol)

\* Lines 352-381 of bakeAtlas: the meshes to render, the meshes unioned into
\* the sphere and the sphere (before the margin), or the throw of line 361.
BakeSphere(h, bakeOnlyLargestMesh) ==
  LET meshes == CollectMeshes(h)
  IN  IF Len(meshes) = 0
        THEN [threw |-> TRUE, meshes |-> <<>>, unioned |-> <<>>,
              sphere |-> EmptySphere]
      ELSE IF bakeOnlyLargestMesh /\ Len(meshes) > 1
        THEN LET best == LargestMesh(h, meshes, meshes[1], 0)
             IN  [threw |-> FALSE, meshes |-> <<best>>,
                  unioned |-> walk(h, best, FALSE),
                  sphere |-> computeBoundingSphere(h, best, FALSE)]
      ELSE [threw |-> FALSE, meshes |-> meshes,
            unioned |-> walk(h, 0, TRUE),
            sphere |-> computeBoundingSphere(h, 0, TRUE)]

NoBakeSphere ==
  [threw |-> FALSE, meshes |-> <<>>, unioned |-> <<>>, sphere |-> EmptySphere]

NoNode == [mesh |-> GroupNode, parent |-> 0, at |-> 0]

NoSphereJob ==
  [pc |-> "idle", scene |-> <<>>, proxy |-> NoNode, largest |-> FALSE,
   plain |-> NoBakeSphere, proxied |-> NoBakeSphere]

\* ------------------------------------------------------------- atlas baking
\* One gl.viewport / gl.scissor / gl.clear / draw round of renderSprites.
\* ss = textureSize / N need not be an integer: the rectangle is kept as
\* numerators over the denominator N (x0 = x0N / den, size = ssN / den).
RenderCall(row, col, N, textureSize, meshes) ==
  [row |-> row, col |-> col,
   x0N |-> col * textureSize, y0N |-> row * textureSize,
   ssN |-> textureSize, den |-> N,
   drawn |-> Len(SelectSeq(meshes, LAMBDA m : m.pos))]

RenderSprites(N, textureSize, meshes) ==
  IF N < 1 THEN <<>>
  ELSE [k \in 1..(N * N) |->
          RenderCall((k - 1) \div N, (k - 1) % N, N, textureSize, meshes)]

BakeThrow(msg, canvasMade) ==
  [called |-> TRUE, threw |-> TRUE, error |-> msg, canvas |-> canvasMade,
   gpu |-> FALSE, albedo |-> <<>>, normal |-> <<>>, returned |-> {}]

MakeTex(pixels, textureSize) == [size |-> textureSize, cells |-> pixels]

\* bakeAtlas with the mesh check moved after the canvas and its context.
BakeAtlasLateCheck(in) ==
  LET N == in.spritesPerSide
      meshes == FilterMeshes(in.scene)
  IN  IF ~in.gl THEN BakeThrow("WebGL2 unavailable", TRUE)
      ELSE IF Len(meshes) = 0
        THEN [BakeThrow("No meshes to bake", TRUE) EXCEPT !.gpu = TRUE]
      ELSE LET albedo == RenderSprites(N, in.textureSize, meshes)
               normal == RenderSprites(N, in.textureSize, meshes)
           IN  [called |-> TRUE, threw |-> FALSE, error |-> NoValue,
                canvas |-> TRUE, gpu |-> TRUE,
                albedo |-> albedo, normal |-> normal,
                returned |-> {[colorTex |-> MakeTex(albedo, in.textureSize),
                               normalTex |-> MakeTex(normal, in.textureSize),
                               sphere |-> in.sphere]}]

\* bakeAtlas(modelScene, {textureSize, spritesPerSide}) with
\* bakeOnlyLargestMesh off.  in.gl: whether getContext("webgl2") succeeds;
\* in.sphere: the (margined) bounding sphere of the model.  `returned` holds
\* the return value, and is empty when the call threw.
BakeAtlas(in) ==
  LET N == in.spritesPerSide
      meshes == FilterMeshes(in.scene)
  IN  IF Len(meshes) = 0 THEN BakeThrow("No meshes to bake", FALSE)
      ELSE IF ~in.gl THEN BakeThrow("WebGL2 unavailable", TRUE)
      ELSE LET albedo == RenderSprites(N, in.textureSize, meshes)
               normal == RenderSprites(N, in.textureSize, meshes)
           IN  [called |-> TRUE, threw |-> FALSE, error |-> NoValue,
                canvas |-> TRUE, gpu |-> TRUE,
                albedo |-> albedo, normal |-> normal,
                returned |-> {[colorTex |-> MakeTex(albedo, in.textureSize),
                               normalTex |-> MakeTex(normal, in.textureSize),
                               sphere |-> in.sphere]}]

RECURSIVE SeqsUpTo(_, _)
SeqsUpTo(S, n) ==
  IF n = 0 THEN {<<>>}
  ELSE LET shorter == SeqsUpTo(S, n - 1)
       IN  shorter \cup {Append(q, x) : q \in shorter, x \in S}

Scenes == SeqsUpTo(MeshKinds, MaxMeshes)

TextureSizes == {-64, 0, 64}

UnitSphere == [center |-> 0, radius |-> 1]

BakeInputs ==
  [scene : Scenes, textureSize : TextureSizes,
   spritesPerSide : (-1)..MaxSprites, gl : BOOLEAN, sphere : {UnitSphere}]

NoBakeIn ==
  [scene |-> <<>>, textureSize |-> 0, spritesPerSide |-> 0, gl |-> FALSE,
   sphere |-> UnitSphere]

NoBakeOut ==
  [called |-> FALSE, threw |-> FALSE, error |-> NoValue, canvas |-> FALSE,
   gpu |-> FALSE, albedo |-> <<>>, normal |-> <<>>, returned |-> {}]

IdleBake == bakeIn = NoBakeIn /\ bakeOut = NoBakeOut

\* ------------------------------------------------------------ forest set-up
ForestScenes == {<<TrunkMesh, QuadMesh>>, <<QuadMesh>>}

Spheres == {[center |-> c, radius |-> 1] : c \in 0..1}

\* Options of createOctahedralImpostorForest (modelPath given, so the model is
\* loaded asynchronously).  The forest is built with a fade range of 1 and the
\* largest lod2Distance; the setters reach the other values.
ForestOpts ==
  [scene : ForestScenes, gl : BOOLEAN, sphere : Spheres,
   treeCount : 1..MaxTrees,
   lodDistance : 0..MaxLod, fadeRange : {1}, lod2Distance : {MaxLod2}]

NoOpts ==
  [scene |-> <<>>, gl |-> FALSE, sphere |-> UnitSphere, treeCount |-> 0,
   lodDistance |-> 0, fadeRange |-> 0, lod2Distance |-> 0]

NoFrustum == [on |-> FALSE, lo |-> 0, hi |-> 0]

NoGroup == [created |-> FALSE, children |-> {}]

Zeros(n) == [r \in 1..n |-> 0]

\* function _recomputeThresholds()
Thresholds(lodDist, lod2Dist, fade) ==
  [inner |-> (lodDist - fade) * (lodDist - fade),
   outer |-> (lodDist + fade) * (lodDist + fade),
   inner2 |-> (lod2Dist - fade) * (lod2Dist - fade),
   outer2 |-> (lod2Dist + fade) * (lod2Dist + fade)]

_recomputeThresholds(lodDist, lod2Dist, fade) ==
  LET t == Thresholds(lodDist, lod2Dist, fade)
  IN  /\ innerDistSq' = t.inner
      /\ outerDistSq' = t.outer
      /\ inner2DistSq' = t.inner2
      /\ outer2DistSq' = t.outer2

thresholdVars == <<innerDistSq, outerDistSq, inner2DistSq, outer2DistSq>>

lodVars == <<_lodDist, _lod2Dist, _fadeRange, _uLodDist, _uFadeRange, _uLod2Dist>>

tierVars == <<_compactNear, nearRows, nearCount, impostorRows, compactCenters,
  impostorCount, wireframeRows, wireframeCount, megaRows, compactCenters2,
  megaCount>>

frameVars == <<_frameCount, _lastNearCount, _lastLod1Count, _lastLod2Count,
  cameraPosition, frustum>>

builtVars == <<group, uNearLodDist, uNearFadeRange, posX, allCenters,
  cullRadius, thresholdVars, tierVars>>

\* Which near InstancedMeshes makeNearMesh creates: one for the trunk
\* geometries, one for the leaf geometries, each only if it has geometry.
NearMeshNames(scene) ==
  LET kept == FilterMeshes(scene)
      isLeaf(m) == m.name = "leaf"
  IN  (IF \E k \in 1..Len(kept) : ~isLeaf(kept[k]) THEN {"nearTrunk"} ELSE {})
      \cup (IF \E k \in 1..Len(kept) : isLeaf(kept[k]) THEN {"nearLeaf"} ELSE {})

BakeArgs(o) ==
  [scene |-> o.scene, textureSize |-> 64, spritesPerSide |-> 2, gl |-> o.gl,
   sphere |-> o.sphere]

\* Lines 955-1191: everything after a successful bake, up to the return.
BuildForest(o, sphere, px) ==
  /\ pc' = "ready"
  /\ uNearLodDist' = o.lodDistance
  /\ uNearFadeRange' = o.fadeRange
  /\ posX' = px
  /\ allCenters' = [i \in 1..o.treeCount |-> px[i] + sphere.center]
  /\ cullRadius' = sphere.radius
  /\ group' = [created |-> TRUE,
               children |-> NearMeshNames(o.scene)
                            \cup {"impostorMesh", "wireframeMesh", "megaMesh"}]
  /\ _compactNear' = Zeros(o.treeCount)
  /\ nearRows' = [i \in 1..o.treeCount |-> i]
  /\ nearCount' = o.treeCount
  /\ impostorRows' = Zeros(o.treeCount)
  /\ compactCenters' = Zeros(o.treeCount)
  /\ impostorCount' = 0
  /\ wireframeRows' = Zeros(o.treeCount)
  /\ wireframeCount' = 0
  /\ megaRows' = Zeros(o.treeCount)
  /\ compactCenters2' = Zeros(o.treeCount)
  /\ megaCount' = 0
  /\ _recomputeThresholds(o.lodDistance, o.lod2Distance, o.fadeRange)

\* createOctahedralImpostorForest up to `await new Promise(... _gltf.load ...)`.
Create(o) ==
  /\ pc = "idle"
  /\ pc' = "loading"
  /\ opts' = o
  /\ _lodDist' = o.lodDistance
  /\ _lod2Dist' = o.lod2Distance
  /\ _fadeRange' = o.fadeRange
  /\ _uLodDist' = o.lodDistance
  /\ _uFadeRange' = o.fadeRange
  /\ _uLod2Dist' = o.lod2Distance
  /\ UNCHANGED <<root, bakeVars, builtVars, frameVars, setCalls, disposed, sideVars>>

\* The load fails: the promise of createOctahedralImpostorForest rejects.
LoadReject ==
  /\ pc = "loading"
  /\ pc' = "rejected"
  /\ UNCHANGED <<opts, root, bakeVars, lodVars, builtVars, frameVars, setCalls,
                 disposed, sideVars>>

BakeResult(out) == CHOOSE r \in out.returned : TRUE

\* A rejection that leaves the group of line 1057 behind.
BakeRejectsHalfBuilt ==
  /\ pc' = "rejected"
  /\ group' = [created |-> TRUE, children |-> {}]
  /\ UNCHANGED <<uNearLodDist, uNearFadeRange, posX, allCenters, cullRadius,
                 thresholdVars, tierVars>>

\* bakeAtlas throws at line 943, before the group of line 1057 exists.
BakeRejects ==
  /\ pc' = "rejected"
  /\ UNCHANGED builtVars

\* The load succeeds: the rest of the function runs without suspending.
LoadResolve ==
  /\ pc = "loading"
  /\ root' = opts.scene
  /\ bakeIn' = BakeArgs(opts)
  /\ bakeOut' = BakeAtlas(BakeArgs(opts))
  /\ IF BakeAtlas(BakeArgs(opts)).threw
       THEN BakeRejects
       ELSE \E px \in [1..opts.treeCount -> 0..MaxPos] :
              BuildForest(opts, BakeResult(BakeAtlas(BakeArgs(opts))).sphere, px)
  /\ UNCHANGED <<opts, lodVars, frameVars, setCalls, disposed, sideVars>>

\* ------------------------------------------------------------- LOD update
\* The view frustum of a camera at x = cam that looks along +x ("fwd") or -x
\* ("back") with the far plane FrustumFar away, or no frustum argument.
FrustumFar == 1

Facings == {"none", "fwd", "back"}

MakeFrustum(cam, facing) ==
  IF facing = "none" THEN NoFrustum
  ELSE IF facing = "fwd" THEN [on |-> TRUE, lo |-> cam, hi |-> cam + FrustumFar]
  ELSE [on |-> TRUE, lo |-> cam - FrustumFar, hi |-> cam]

\* THREE.Frustum.intersectsSphere: false iff the centre lies more than the
\* radius behind one of the planes.
IntersectsSphere(fr, center, radius) ==
  /\ center - fr.lo >= -radius
  /\ fr.hi - center >= -radius

\* _cullSphere.center.set(posX[i], posY[i], posZ[i]); frustum test (1208-1211)
Culled(fr, i) == fr.on /\ ~IntersectsSphere(fr, posX[i], cullRadius)

\* dx*dx + dy*dy + dz*dz with dx = posX[i] - cpx (1213-1216)
DistSq(i, cpx) == (posX[i] - cpx) * (posX[i] - cpx)

NearTest(distSq) == distSq < outerDistSq

\* Lod1Test without its lower bound.
Lod1TestNoInner(distSq) == distSq < inner2DistSq

\* Lod1Test as src/octahedralImpostor.js:777 has it (Mid up to lod2 + fade).
Lod1TestOverlap(distSq) == distSq >= innerDistSq /\ distSq < outer2DistSq

Lod1Test(distSq) == distSq >= innerDistSq /\ distSq < inner2DistSq

\* The Far test starting at the outer edge of the band, lod2 + fade.
Lod2TestOuter(distSq) == distSq >= outer2DistSq

Lod2Test(distSq) == distSq >= inner2DistSq

\* A row of a tier buffer holds the index of the instance whose transform
\* (allNearMats / allImpostorMats) or centre (allCenters) was copied into it;
\* 0 is a row never written.
LoopStart ==
  [near |-> 0, far |-> 0, mega |-> 0, cn |-> _compactNear,
   ir |-> impostorRows, cc |-> compactCenters,
   mr |-> megaRows, cc2 |-> compactCenters2]

PushNear(st, i) == [st EXCEPT !.cn[st.near + 1] = i, !.near = @ + 1]

\* PushLod1 writing the centre at the instance's own row, not compacted.
PushLod1CentreInPlace(st, i) ==
  [st EXCEPT !.ir[st.far + 1] = i, !.cc[i] = i, !.far = @ + 1]

PushLod1(st, i) ==
  [st EXCEPT !.ir[st.far + 1] = i, !.cc[st.far + 1] = i, !.far = @ + 1]

PushLod2(st, i) ==
  [st EXCEPT !.mr[st.mega + 1] = i, !.cc2[st.mega + 1] = i, !.mega = @ + 1]

\* Classify with hysteresis: an instance the Near tier drew in the previous
\* frame stays in it until it is past the Far threshold.
ClassifyHysteresis(st, i, distSq) ==
  LET wasNear == \E r \in 1..nearCount : nearRows[r] = i
      s1 == IF NearTest(distSq) \/ (wasNear /\ distSq < inner2DistSq)
              THEN PushNear(st, i) ELSE st
      s2 == IF Lod1Test(distSq) THEN PushLod1(s1, i) ELSE s1
  IN  IF Lod2Test(distSq) THEN PushLod2(s2, i) ELSE s2

Classify(st, i, distSq) ==
  LET s1 == IF NearTest(distSq) THEN PushNear(st, i) ELSE st
      s2 == IF Lod1Test(distSq) THEN PushLod1(s1, i) ELSE s1
  IN  IF Lod2Test(distSq) THEN PushLod2(s2, i) ELSE s2

\* for (let i = 0; i < treeCount; i++) { ... } of update()
RECURSIVE UpdateLoop(_, _, _, _)
UpdateLoop(i, st, cpx, fr) ==
  IF i > Len(posX) THEN st
  ELSE IF Culled(fr, i) THEN UpdateLoop(i + 1, st, cpx, fr)
  ELSE UpdateLoop(i + 1, Classify(st, i, DistSq(i, cpx)), cpx, fr)

CopyRows(src, n, dst) == [r \in DOMAIN dst |-> IF r <= n THEN src[r] ELSE dst[r]]

\* update(camera, frustum).  uFrameOffset = (_frameCount * 0.618...) % 1 is a
\* function of _frameCount.
Update(cam, facing) ==
  /\ pc = "ready"
  /\ _frameCount < MaxFrames
  /\ LET fr == MakeFrustum(cam, facing)
         st == UpdateLoop(1, LoopStart, cam, fr)
     IN  /\ _frameCount' = _frameCount + 1
         /\ cameraPosition' = cam
         /\ frustum' = fr
         /\ _compactNear' = st.cn
         /\ nearRows' = CopyRows(st.cn, st.near, nearRows)
         /\ nearCount' = st.near
         /\ impostorRows' = st.ir
         /\ compactCenters' = st.cc
         /\ impostorCount' = st.far
         /\ wireframeCount' = st.far
         /\ wireframeRows' = CopyRows(st.ir, st.far, wireframeRows)
         /\ megaRows' = st.mr
         /\ compactCenters2' = st.cc2
         /\ megaCount' = st.mega
         /\ _lastNearCount' = st.near
         /\ _lastLod1Count' = st.far
         /\ _lastLod2Count' = st.mega
  /\ UNCHANGED <<pc, opts, root, bakeVars, lodVars, group, uNearLodDist,
                 uNearFadeRange, posX, allCenters, cullRadius, thresholdVars,
                 setCalls, disposed, sideVars>>

setterFrame == <<pc, opts, root, bakeVars, group, uNearLodDist, uNearFadeRange,
  posX, allCenters, cullRadius, tierVars, frameVars, disposed, sideVars>>

setLodDistance(d) ==
  /\ pc = "ready"
  /\ setCalls < MaxSetCalls
  /\ setCalls' = setCalls + 1
  /\ _lodDist' = d
  /\ _uLodDist' = d
  /\ _recomputeThresholds(d, _lod2Dist, _fadeRange)
  /\ UNCHANGED <<_lod2Dist, _uLod2Dist, _fadeRange, _uFadeRange, setterFrame>>

setLod2Distance(d) ==
  /\ pc = "ready"
  /\ setCalls < MaxSetCalls
  /\ setCalls' = setCalls + 1
  /\ _lod2Dist' = d
  /\ _uLod2Dist' = d
  /\ _recomputeThresholds(_lodDist, d, _fadeRange)
  /\ UNCHANGED <<_lodDist, _uLodDist, _fadeRange, _uFadeRange, setterFrame>>

\* setFadeRange without its call of _recomputeThresholds.
setFadeRangeNoRecompute(f) ==
  /\ pc = "ready"
  /\ setCalls < MaxSetCalls
  /\ setCalls' = setCalls + 1
  /\ _fadeRange' = f
  /\ _uFadeRange' = f
  /\ UNCHANGED <<_lodDist, _uLodDist, _lod2Dist, _uLod2Dist, thresholdVars,
                 setterFrame>>

setFadeRange(f) ==
  /\ pc = "ready"
  /\ setCalls < MaxSetCalls
  /\ setCalls' = setCalls + 1
  /\ _fadeRange' = f
  /\ _uFadeRange' = f
  /\ _recomputeThresholds(_lodDist, _lod2Dist, f)
  /\ UNCHANGED <<_lodDist, _uLodDist, _lod2Dist, _uLod2Dist, setterFrame>>

\* The meshes the forest added to its group (lines 1077, 1125, 1143, 1168).
ForestMeshes(scene) ==
  NearMeshNames(scene) \cup {"impostorMesh", "wireframeMesh", "megaMesh"}

\* dispose() as in src/octahedralImpostor.js:820-829: the wireframe overlay
\* and its material are left alone.
disposeLeavesWireframe ==
  /\ pc = "ready"
  /\ group' = [group EXCEPT
       !.children = @ \ (NearMeshNames(opts.scene) \cup {"impostorMesh", "megaMesh"})]
  /\ disposed' = disposed \cup NearMeshNames(opts.scene)
       \cup {"planeGeo", "impostorMat", "megaMat", "colorTex", "normalTex"}
  /\ UNCHANGED <<pc, opts, root, bakeVars, lodVars, uNearLodDist,
                 uNearFadeRange, posX, allCenters, cullRadius, thresholdVars,
                 tierVars, frameVars, setCalls, sideVars>>

\* dispose(): the near geometries, the plane, the three materials and both
\* atlas textures are disposed, and every mesh is removed from the group.
dispose ==
  /\ pc = "ready"
  /\ group' = [group EXCEPT !.children = @ \ ForestMeshes(opts.scene)]
  /\ disposed' = disposed \cup NearMeshNames(opts.scene)
       \cup {"planeGeo", "impostorMat", "megaMat", "wireframeMat",
             "colorTex", "normalTex"}
  /\ UNCHANGED <<pc, opts, root, bakeVars, lodVars, uNearLodDist,
                 uNearFadeRange, posX, allCenters, cullRadius, thresholdVars,
                 tierVars, frameVars, setCalls, sideVars>>

\* ------------------------------------------------- atlas baking, by steps
\* The same bakeAtlas, one sprite at a time, and the white placeholder cache.
\* A texture is known by the context it was created on; contexts are numbered
\* in the order getContext("webgl2") returned them (one new canvas per bake).
\* bakeRun.input.textured: whether the materials carry a map image.
NoBakeRun ==
  [pc |-> "idle", input |-> NoBakeIn, textured |-> FALSE, ctx |-> 0,
   row |-> 0, col |-> 0, albedo |-> <<>>, normal |-> <<>>,
   colorPixels |-> <<>>, normalPixels |-> <<>>, read |-> {},
   bound |-> {}, error |-> NoValue, returned |-> {}]

\* The module-level cache of src/octahedralImpostor.js:126-135: the first
\* white texture ever created is returned for every context.
whiteTextureSingleton(cache, gl) ==
  IF DOMAIN cache # {}
    THEN [tex |-> cache[CHOOSE c \in DOMAIN cache : TRUE], cache |-> cache]
    ELSE [tex |-> [madeOn |-> gl], cache |-> (gl :> [madeOn |-> gl])]

\* function whiteTexture(gl): the texture returned and the cache afterwards.
whiteTexture(cache, gl) ==
  IF gl \in DOMAIN cache THEN [tex |-> cache[gl], cache |-> cache]
  ELSE [tex |-> [madeOn |-> gl],
        cache |-> [c \in DOMAIN cache \cup {gl} |->
                     IF c = gl THEN [madeOn |-> gl] ELSE cache[c]]]

\* The row loop of renderSprites ended after its first row.
PassDoneAfterRow(run) == run.row >= 1

\* for (let row = 0; row < N; row++) has run out.
PassDone(run) == ~(run.row < run.input.spritesPerSide)

\* bakeAtlas up to the first renderSprites call (lines 348-521).
BakeStart(in, textured) ==
  /\ bakeRun.pc \in {"idle", "threw", "returned"}
  /\ LET meshes == FilterMeshes(in.scene)
         fresh == [NoBakeRun EXCEPT !.input = in, !.textured = textured,
                                    !.ctx = bakeRun.ctx]
     IN  bakeRun' =
           IF Len(meshes) = 0
             THEN [fresh EXCEPT !.pc = "threw", !.error = "No meshes to bake"]
           ELSE IF ~in.gl
             THEN [fresh EXCEPT !.pc = "threw", !.error = "WebGL2 unavailable"]
           ELSE [fresh EXCEPT !.pc = "albedo", !.ctx = bakeRun.ctx + 1]
  /\ UNCHANGED <<forestVars, bakeVars, codec, sphereJob, _whiteTexByCtx, billboard, moreVars>>

\* One round of the col loop of renderSprites: viewport, scissor, clear, and
\* every mesh drawn with its own map or with whiteTexture(gl) bound.
RenderSprite ==
  /\ bakeRun.pc \in {"albedo", "normal"}
  /\ ~PassDone(bakeRun)
  /\ LET in == bakeRun.input
         N == in.spritesPerSide
         meshes == FilterMeshes(in.scene)
         call == RenderCall(bakeRun.row, bakeRun.col, N, in.textureSize, meshes)
         white == whiteTexture(_whiteTexByCtx, bakeRun.ctx)
         last == bakeRun.col + 1 >= N
         moved == [bakeRun EXCEPT
                     !.col = IF last THEN 0 ELSE @ + 1,
                     !.row = IF last THEN @ + 1 ELSE @,
                     !.albedo = IF bakeRun.pc = "albedo" THEN Append(@, call) ELSE @,
                     !.normal = IF bakeRun.pc = "normal" THEN Append(@, call) ELSE @]
     IN  IF bakeRun.textured
           THEN /\ bakeRun' = moved
                /\ UNCHANGED _whiteTexByCtx
           ELSE /\ bakeRun' = [moved EXCEPT !.bound = @ \cup {white.tex}]
                /\ _whiteTexByCtx' = white.cache
  /\ UNCHANGED <<forestVars, bakeVars, codec, sphereJob, billboard, moreVars>>

\* gl.readPixels after a pass (lines 546-555 and 590-599).
ReadPixels ==
  /\ bakeRun.pc \in {"albedo", "normal"}
  /\ PassDone(bakeRun)
  /\ bakeRun' =
       IF bakeRun.pc = "albedo"
         THEN [bakeRun EXCEPT !.pc = "normal", !.row = 0, !.col = 0,
                              !.colorPixels = bakeRun.albedo,
                              !.read = @ \cup {"albedo"}]
         ELSE [bakeRun EXCEPT !.pc = "cleanup",
                              !.normalPixels = bakeRun.normal,
                              !.read = @ \cup {"normal"}]
  /\ UNCHANGED <<forestVars, bakeVars, codec, sphereJob, _whiteTexByCtx, billboard, moreVars>>

\* Cleanup and return { colorTex, normalTex, sphere } (lines 602-630).
BakeReturn ==
  /\ bakeRun.pc = "cleanup"
  /\ bakeRun' = [bakeRun EXCEPT
       !.pc = "returned",
       !.returned =
          {[colorTex |-> MakeTex(bakeRun.colorPixels, bakeRun.input.textureSize),
            normalTex |-> MakeTex(bakeRun.normalPixels, bakeRun.input.textureSize),
            sphere |-> bakeRun.input.sphere]}]
  /\ UNCHANGED <<forestVars, bakeVars, codec, sphereJob, _whiteTexByCtx, billboard, moreVars>>

\* ------------------------------------------------------------ specification
IdleForest ==
  /\ pc = "idle"
  /\ opts = NoOpts
  /\ root = <<>>
  /\ group = NoGroup
  /\ _lodDist = 0 /\ _lod2Dist = 0 /\ _fadeRange = 0
  /\ _uLodDist = 0 /\ _uFadeRange = 0 /\ _uLod2Dist = 0
  /\ uNearLodDist = 0 /\ uNearFadeRange = 0
  /\ posX = <<>> /\ allCenters = <<>> /\ cullRadius = 0
  /\ innerDistSq = 0 /\ outerDistSq = 0 /\ inner2DistSq = 0 /\ outer2DistSq = 0
  /\ _frameCount = 0
  /\ _lastNearCount = 0 /\ _lastLod1Count = 0 /\ _lastLod2Count = 0
  /\ _compactNear = <<>>
  /\ nearRows = <<>> /\ nearCount = 0
  /\ impostorRows = <<>> /\ compactCenters = <<>> /\ impostorCount = 0
  /\ wireframeRows = <<>> /\ wireframeCount = 0
  /\ megaRows = <<>> /\ compactCenters2 = <<>> /\ megaCount = 0
  /\ cameraPosition = 0
  /\ frustum = NoFrustum
  /\ setCalls = 0
  /\ disposed = {}

NoCodec ==
  [pc |-> "idle", hemi |-> TRUE, N |-> 0, gi |-> <<0, 0>>,
   dir |-> <<0, 0, 0>>, baked |-> <<0, 0, 0>>,
   cell |-> <<0, 0>>, bakedCell |-> <<0, 0>>]

NoBillboard ==
  [pc |-> "idle", hemi |-> TRUE, N |-> 0, dir |-> <<0, 0, 0>>,
   vWeight |-> [x |-> 0, y |-> 0, z |-> 0, w |-> 0, den |-> 1],
   vS1 |-> <<0, 0>>, vS2 |-> <<0, 0>>, vS3 |-> <<0, 0>>]

NoVertex ==
  [pc |-> "idle", N |-> 0, cam |-> <<0, 0, 0>>, dist |-> 0,
   corner |-> <<0, 0>>, camDir |-> "none", basis |-> "none",
   viewDir |-> "none", denom |-> <<0, 0, 0>>, vUV |-> <<"none", "none", "none">>]

NoScatter ==
  [pc |-> "idle", camera |-> FALSE, camPos |-> 0, slotCount |-> 0,
   innerR |-> 0, lodDistance |-> 0, culling |-> FALSE,
   meshes |-> 0, data |-> <<>>, instanceCount |-> 0, group |-> {},
   count |-> <<>>, pending |-> {}, issued |-> 0, after |-> "none"]

NoEffect == [runs |-> <<>>, ref |-> 0, threeScene |-> {}, disposals |-> <<>>]

IdleMore == vertex = NoVertex /\ scatter = NoScatter /\ effect = NoEffect

IdleSteps == bakeRun = NoBakeRun /\ _whiteTexByCtx = <<>>

IdleSide ==
  /\ codec = NoCodec /\ sphereJob = NoSphereJob /\ IdleSteps
  /\ billboard = NoBillboard
  /\ IdleMore

Init == IdleForest /\ IdleBake /\ IdleSide

Next ==
  \/ pc = "idle" /\ \E o \in ForestOpts : Create(o)
  \/ LoadReject
  \/ LoadResolve
  \/ \E cam \in 0..MaxPos, facing \in Facings : Update(cam, facing)
  \/ \E d \in 0..MaxLod : setLodDistance(d)
  \/ \E d \in 0..MaxLod2 : setLod2Distance(d)
  \/ \E f \in 0..MaxFade : setFadeRange(f)

Spec == Init /\ [][Next]_vars

\* ------------------------------------------- the first frame of any forest
\* A forest built with any lodDistance, fadeRange and lod2Distance, and its
\* first update(): the classification over the whole parameter range.
AnyForestOpts ==
  [scene : ForestScenes, gl : BOOLEAN, sphere : Spheres,
   treeCount : 1..MaxTrees,
   lodDistance : 0..MaxLod, fadeRange : 0..MaxFade, lod2Distance : 0..MaxLod2]

FirstUpdate(cam, facing) ==
  /\ _frameCount = 0
  /\ Update(cam, facing)

NextFirstFrame ==
  \/ pc = "idle" /\ \E o \in AnyForestOpts : Create(o)
  \/ LoadReject
  \/ LoadResolve
  \/ \E cam \in 0..MaxPos, facing \in Facings : FirstUpdate(cam, facing)

SpecFirstFrame == Init /\ [][NextFirstFrame]_vars

\* ----------------------------------------------- frames of a built forest
\* One model, loaded and baked without failure, then any interleaving of
\* update() and the setters.
FrameOpts ==
  [scene : {<<TrunkMesh, QuadMesh>>}, gl : {TRUE}, sphere : {UnitSphere},
   treeCount : 1..MaxTrees,
   lodDistance : {1}, fadeRange : {1}, lod2Distance : {MaxLod2}]

NextFrames ==
  \/ pc = "idle" /\ \E o \in FrameOpts : Create(o)
  \/ LoadResolve
  \/ \E cam \in {0, MaxPos}, facing \in Facings : Update(cam, facing)
  \/ \E d \in {0, MaxLod} : setLodDistance(d)
  \/ \E d \in {MaxLod, MaxLod2} : setLod2Distance(d)
  \/ \E f \in {0, MaxFade} : setFadeRange(f)

SpecFrames == Init /\ [][NextFrames]_vars

\* ------------------------------------------------- a forest and dispose()
\* A built forest with its first update(), setFadeRange() and dispose() in
\* any order.
NextDispose ==
  \/ pc = "idle" /\ \E o \in FrameOpts : Create(o)
  \/ LoadResolve
  \/ \E cam \in {0, MaxPos}, facing \in Facings : FirstUpdate(cam, facing)
  \/ \E f \in {0, MaxFade} : setFadeRange(f)
  \/ dispose

SpecDispose == Init /\ [][NextDispose]_vars

\* --------------------------------------------------------- a single bake
\* bakeAtlas called on its own, with any hierarchy and any options.
InitBake ==
  /\ IdleForest
  /\ bakeIn \in BakeInputs
  /\ bakeOut = NoBakeOut
  /\ IdleSide

Bake ==
  /\ ~bakeOut.called
  /\ bakeOut' = BakeAtlas(bakeIn)
  /\ UNCHANGED <<forestVars, bakeIn, sideVars>>

NextBake == Bake

SpecBake == InitBake /\ [][NextBake]_vars

\* ------------------------------------------------------- direction codec
\* Directions are integer vectors taken up to a positive factor: normalize()
\* only rescales, and the encoder divides by the L1 norm.  Grid coordinates
\* gi are integers and nm1 = spritesPerSide - 1, so gridUV = gi / nm1 and the
\* decoded position times nm1 is an integer vector.
hemiOctaGridToDir(gi, nm1) ==
  LET x == gi[1] - gi[2]
      z == gi[1] + gi[2] - nm1
  IN  <<x, nm1 - Abs(x) - Abs(z), z>>

\* decodeDirection / decode: without EZ_USE_HEMI_OCTAHEDRON the position is
\* the constant (0, 1, 0).
decodeDirection(hemi, gi, nm1) ==
  IF hemi
    THEN LET px == gi[1] - gi[2]
             pz == gi[1] + gi[2] - nm1
             py == nm1 - Abs(px) - Abs(pz)
         IN  <<px, py, pz>>
    ELSE <<0, 1, 0>>

\* encodeDirection / encode, as the fraction (xn / den, yn / den):
\* octahedron = direction / dot(direction, sign(direction)), then
\* (1 + o.x + o.z, 1 + o.z - o.x) * 0.5; without the define, vec2(0.0).
encodeDirection(hemi, dir) ==
  IF hemi
    THEN LET d == Abs(dir[1]) + Abs(dir[2]) + Abs(dir[3])
         IN  [xn |-> d + dir[1] + dir[3], yn |-> d + dir[3] - dir[1],
              den |-> 2 * d]
    ELSE [xn |-> 0, yn |-> 0, den |-> 1]

\* grid = encode(dir) * nm1; the cell is min(floor(grid), nm1).
GridCell(enc, nm1) ==
  <<Min2((enc.xn * nm1) \div enc.den, nm1),
    Min2((enc.yn * nm1) \div enc.den, nm1)>>

\* spritesPerSide >= 2: with a single sprite nm1 is 0 and gi / nm1 is 0 / 0.
CodecInputs ==
  {[pc |-> "cell", hemi |-> h, N |-> n, gi |-> <<i, j>>,
    dir |-> <<0, 0, 0>>, baked |-> <<0, 0, 0>>,
    cell |-> <<0, 0>>, bakedCell |-> <<0, 0>>] :
     h \in BOOLEAN, n \in 2..MaxGrid, i \in 0..(MaxGrid - 1),
     j \in 0..(MaxGrid - 1)}

InitCodec ==
  /\ IdleForest
  /\ IdleBake
  /\ codec \in {c \in CodecInputs : c.gi[1] < c.N /\ c.gi[2] < c.N}
  /\ sphereJob = NoSphereJob
  /\ IdleSteps
  /\ billboard = NoBillboard
  /\ IdleMore

\* The cell's sprite normal (shader) and the direction it was baked from.
Decode ==
  /\ codec.pc = "cell"
  /\ codec' = [codec EXCEPT
       !.pc = "decoded",
       !.dir = decodeDirection(codec.hemi, codec.gi, codec.N - 1),
       !.baked = hemiOctaGridToDir(codec.gi, codec.N - 1)]
  /\ UNCHANGED <<forestVars, bakeVars, sphereJob, stepVars, billboard, moreVars>>

Encode ==
  /\ codec.pc = "decoded"
  /\ codec' = [codec EXCEPT
       !.pc = "encoded",
       !.cell = GridCell(encodeDirection(codec.hemi, codec.dir), codec.N - 1),
       !.bakedCell =
          GridCell(encodeDirection(codec.hemi, codec.baked), codec.N - 1)]
  /\ UNCHANGED <<forestVars, bakeVars, sphereJob, stepVars, billboard, moreVars>>

NextCodec == Decode \/ Encode

SpecCodec == InitCodec /\ [][NextCodec]_vars

\* --------------------------------------- bounding sphere and a flat proxy
\* The sphere bakeAtlas computes for a hierarchy, and then for the same
\* hierarchy with a flat proxy mesh hung under any of its nodes.
MaxNodes == 2

Offsets == {0, 30}

NodeKinds == {GroupNode, TrunkMesh, LeafMesh, CardMesh}

ProxyKinds == {QuadMesh, CardMesh}

RECURSIVE Hierarchies(_)
Hierarchies(n) ==
  IF n = 0 THEN {<<>>}
  ELSE LET shorter == Hierarchies(n - 1)
       IN  shorter \cup
           {Append(h, [mesh |-> m, parent |-> p, at |-> x]) :
              h \in {g \in shorter : Len(g) = n - 1},
              m \in NodeKinds, p \in 0..(n - 1), x \in Offsets}

SphereJobs ==
  {[pc |-> "scene", scene |-> h,
    proxy |-> [mesh |-> m, parent |-> p, at |-> x], largest |-> b,
    plain |-> NoBakeSphere, proxied |-> NoBakeSphere] :
     h \in Hierarchies(MaxNodes), m \in ProxyKinds, p \in 0..MaxNodes,
     x \in Offsets, b \in BOOLEAN}

InitSphere ==
  /\ IdleForest
  /\ IdleBake
  /\ codec = NoCodec
  /\ IdleSteps
  /\ billboard = NoBillboard
  /\ IdleMore
  /\ sphereJob \in {j \in SphereJobs : j.proxy.parent <= Len(j.scene)}

\* The bake's sphere for the hierarchy as it is.
MeasurePlain ==
  /\ sphereJob.pc = "scene"
  /\ sphereJob' = [sphereJob EXCEPT
       !.pc = "plain",
       !.plain = BakeSphere(sphereJob.scene, sphereJob.largest)]
  /\ UNCHANGED <<forestVars, bakeVars, codec, stepVars, billboard, moreVars>>

\* The bake's sphere once the proxy has been added to the hierarchy.
MeasureProxied ==
  /\ sphereJob.pc = "plain"
  /\ sphereJob' = [sphereJob EXCEPT
       !.pc = "proxied",
       !.proxied = BakeSphere(Append(sphereJob.scene, sphereJob.proxy),
                              sphereJob.largest)]
  /\ UNCHANGED <<forestVars, bakeVars, codec, stepVars, billboard, moreVars>>

NextSphere == MeasurePlain \/ MeasureProxied

SpecSphere == InitSphere /\ [][NextSphere]_vars

\* ------------------------------------------------------- bakes, by steps
\* Up to MaxBakes bakes that reach their WebGL2 context, one after another.
MaxBakes == 2

StepScenes == {<<QuadMesh>>, <<TrunkMesh>>, <<QuadMesh, TrunkMesh, LeafMesh>>}

StepInputs ==
  [scene : StepScenes, textureSize : TextureSizes,
   spritesPerSide : (-1)..MaxSprites, gl : BOOLEAN, sphere : {UnitSphere}]

NextSteps ==
  \/ \E in \in StepInputs, textured \in BOOLEAN :
       bakeRun.ctx < MaxBakes /\ BakeStart(in, textured)
  \/ RenderSprite
  \/ ReadPixels
  \/ BakeReturn

SpecSteps == Init /\ [][NextSteps]_vars

\* ---------------------------------------------- sprite cells of a vertex
\* positionNodeFn, lines 756-775: the three atlas cells blended for a camera
\* direction.  The direction is an integer vector taken up to a positive
\* factor; the zero vector (camera at the instance centre) has no direction.
MaxDir == 4

\* frac = fract(grid), as numerators over enc.den.
GridFract(enc, nm1) == <<(enc.xn * nm1) % enc.den, (enc.yn * nm1) % enc.den>>

\* w.w = max(0, sign(frac.x - frac.y))
WeightW(frac) == IF frac[1] > frac[2] THEN 1 ELSE 0

\* w = (min(1 - frac.x, 1 - frac.y), |frac.x - frac.y|, min(frac.x, frac.y),
\* w.w), the first three as numerators over den.
Weights(frac, den) ==
  [x |-> Min2(den - frac[1], den - frac[2]),
   y |-> Abs(frac[1] - frac[2]),
   z |-> Min2(frac[1], frac[2]),
   w |-> WeightW(frac),
   den |-> den]

NoWeight == [x |-> 0, y |-> 0, z |-> 0, w |-> 0, den |-> 1]

\* A neighbour cell without the min(..., nm1).
NeighbourUnclamped(s1, step, nm1) == <<s1[1] + step[1], s1[2] + step[2]>>

\* min(add(s1, step), nm1)
Neighbour(s1, step, nm1) ==
  <<Min2(s1[1] + step[1], nm1), Min2(s1[2] + step[2], nm1)>>

BillboardInputs ==
  {[pc |-> "vertex", hemi |-> h, N |-> n, dir |-> <<x, y, z>>,
    vWeight |-> NoWeight,
    vS1 |-> <<0, 0>>, vS2 |-> <<0, 0>>, vS3 |-> <<0, 0>>] :
     h \in BOOLEAN, n \in 1..MaxGrid,
     x \in (-MaxDir)..MaxDir, y \in (-MaxDir)..MaxDir, z \in (-MaxDir)..MaxDir}

InitBillboard ==
  /\ IdleForest
  /\ IdleBake
  /\ codec = NoCodec
  /\ sphereJob = NoSphereJob
  /\ IdleSteps
  /\ billboard \in {b \in BillboardInputs : b.dir # <<0, 0, 0>>}
  /\ IdleMore

positionNodeFn ==
  /\ billboard.pc = "vertex"
  /\ LET nm1 == billboard.N - 1
         enc == encodeDirection(billboard.hemi, billboard.dir)
         s1 == GridCell(enc, nm1)
         w == Weights(GridFract(enc, nm1), enc.den)
         ww == w.w
     IN  billboard' = [billboard EXCEPT
           !.pc = "done",
           !.vWeight = w,
           !.vS1 = s1,
           !.vS2 = Neighbour(s1, <<ww, 1 - ww>>, nm1),
           !.vS3 = Neighbour(s1, <<1, 1>>, nm1)]
  /\ UNCHANGED <<forestVars, bakeVars, codec, sphereJob, stepVars, moreVars>>

NextBillboard == positionNodeFn

SpecBillboard == InitBillboard /\ [][NextBillboard]_vars

\* ------------------------------------------------- one billboard vertex
\* positionNodeFn, lines 740-795, with the vectors it normalizes.  Vectors
\* are integer vectors; a unit vector is kept as an integer vector and its
\* norm, so camera directions are those whose norms are integers.  Lengths
\* are in half units: the quad's corners are (+-1/2, +-1/2) and the camera is
\* dist / 2 away from the instance centre, in local space.
MaxCam == 4

MaxCamDist == 4

Dot(a, b) == a[1] * b[1] + a[2] * b[2] + a[3] * b[3]

Cross(a, b) ==
  <<a[2] * b[3] - a[3] * b[2], a[3] * b[1] - a[1] * b[3],
    a[1] * b[2] - a[2] * b[1]>>

Plus(a, b) == <<a[1] + b[1], a[2] + b[2], a[3] + b[3]>>

Times(k, a) == <<k * a[1], k * a[2], k * a[3]>>

IsSquare(n) == \E r \in 0..n : r * r = n

Norm(v) == CHOOSE r \in 0..Dot(v, v) : r * r = Dot(v, v)

ZeroVec == <<0, 0, 0>>

\* What a division by zero or normalize() of the zero vector may give.
Undefined == {"nan", "inf"}

\* sign(n.y - 0.999) > 0 for the unit vector of n: n.y / |n| > 0.999
NearlyUp(n) == n[2] > 0 /\ 1000000 * n[2] * n[2] > 998001 * Dot(n, n)

\* planeTangent before its normalize(): cross(up, n); the zero vector when n
\* is parallel to the up chosen.
planeTangent(n) ==
  Cross(IF NearlyUp(n) THEN <<-1, 0, 0>> ELSE <<0, 1, 0>>, n)

\* planeUp before its normalize(): proj = worldUp - n * dot(n, worldUp), times
\* |n|^2; t when length(proj) < 0.001.
planeUp(n, t) ==
  LET proj == Plus(Times(Dot(n, n), <<0, 1, 0>>), Times(-n[2], n))
  IN  IF 1000000 * Dot(proj, proj) < Dot(n, n) * Dot(n, n) * Dot(n, n) * Dot(n, n)
        THEN t ELSE proj

\* projectVert: positionLocal.x * t + positionLocal.y * up with t and up
\* normalized, times 2 * |t| * |up|.
projectVert(n, corner) ==
  LET t == planeTangent(n)
      up == planeUp(n, t)
  IN  Plus(Times(corner[1] * Norm(up), t), Times(corner[2] * Norm(t), up))

\* sub(bv, camLocal) before normalize(), times 2 * |t| * |up| * |cam|.
ViewVector(cam, dist, corner) ==
  LET t == planeTangent(cam)
      up == planeUp(cam, t)
  IN  Plus(Times(Norm(cam), projectVert(cam, corner)),
           Times(-(dist * Norm(t) * Norm(up)), cam))

\* Camera vectors whose normalizations are exact in integers.
ExactCam(c) ==
  /\ IsSquare(Dot(c, c))
  /\ LET t == planeTangent(c)
     IN  IsSquare(Dot(t, t)) /\ IsSquare(Dot(planeUp(c, t), planeUp(c, t)))

VertexInputs ==
  {[pc |-> "vertex", N |-> n, cam |-> <<x, y, z>>, dist |-> m,
    corner |-> <<px, py>>, camDir |-> "none", basis |-> "none",
    viewDir |-> "none", denom |-> <<0, 0, 0>>, vUV |-> <<"none", "none", "none">>] :
     n \in 2..3, x \in (-MaxCam)..MaxCam, y \in (-MaxCam)..MaxCam,
     z \in (-MaxCam)..MaxCam, m \in 1..MaxCamDist,
     px \in {-1, 1}, py \in {-1, 1}}

InitVertex ==
  /\ IdleForest
  /\ IdleBake
  /\ codec = NoCodec
  /\ sphereJob = NoSphereJob
  /\ IdleSteps
  /\ billboard = NoBillboard
  /\ vertex \in {v \in VertexInputs :
                   /\ ExactCam(v.cam)
                   /\ v.cam = ZeroVec => v.dist = 1 /\ v.corner = <<1, 1>>}
  /\ scatter = NoScatter
  /\ effect = NoEffect

\* planeUV: denom = dot(vd, n), tt = dot(-camL, n) / denom.
planeUV(n, vd, u) ==
  IF planeTangent(n) = ZeroVec THEN "nan"
  ELSE IF Dot(vd, n) = 0 THEN u
  ELSE "finite"

\* The vertex stage for a camera vector that is not zero.
positionNodeOf(v, u) ==
  LET nm1 == v.N - 1
      enc == encodeDirection(TRUE, v.cam)
      s1 == GridCell(enc, nm1)
      ww == WeightW(GridFract(enc, nm1))
      s2 == Neighbour(s1, <<ww, 1 - ww>>, nm1)
      s3 == Neighbour(s1, <<1, 1>>, nm1)
      t == planeTangent(v.cam)
      vd == ViewVector(v.cam, v.dist, v.corner)
      pn == <<decodeDirection(TRUE, s1, nm1), decodeDirection(TRUE, s2, nm1),
              decodeDirection(TRUE, s3, nm1)>>
  IN  IF t = ZeroVec
        THEN [v EXCEPT !.pc = "done", !.camDir = "unit", !.basis = "nan",
                       !.viewDir = "nan", !.vUV = <<"nan", "nan", "nan">>]
      ELSE IF vd = ZeroVec
        THEN [v EXCEPT !.pc = "done", !.camDir = "unit", !.basis = "unit",
                       !.viewDir = u, !.vUV = <<"nan", "nan", "nan">>]
      ELSE [v EXCEPT !.pc = "done", !.camDir = "unit", !.basis = "unit",
                     !.viewDir = "unit",
                     !.denom = [k \in 1..3 |-> Dot(vd, pn[k])],
                     !.vUV = [k \in 1..3 |-> planeUV(pn[k], vd, u)]]

\* mat.positionNode = positionNodeFn(): one vertex of one instance.  With the
\* camera at the instance centre camLocal is the zero vector and
\* normalize(camLocal) divides by zero; encode() then divides by d = 0.
positionNode ==
  /\ vertex.pc = "vertex"
  /\ \E u \in Undefined :
       vertex' =
         IF vertex.cam = ZeroVec
           THEN [vertex EXCEPT !.pc = "done", !.camDir = u, !.basis = "nan",
                               !.viewDir = "nan", !.vUV = <<"nan", "nan", "nan">>]
           ELSE positionNodeOf(vertex, u)
  /\ UNCHANGED <<forestVars, bakeVars, codec, sphereJob, stepVars, billboard,
                 scatter, effect>>

NextVertex == positionNode

SpecVertex == InitVertex /\ [][NextVertex]_vars

\* ------------------------------------------------------- a scatter slot
\* src/scatter.js, one slot key.  Positions are 1-D; an instanced-mesh pair
\* is named by the number of the load that created it (0: null).
\* MAX_SCATTER_PER_TYPE is 20000 in the source (scatter.js:11).
MAX_SCATTER_PER_TYPE == 2

MaxLoads == 3

\* The placement's seeded random sequence: candidate i, on a terrain of half
\* width 2.
Candidate(i) == ((3 * i) % 5) - 2

\* SCATTER_CULL_RADIUS = 1.5, in halves.
ScatterIntersects(fr, pos) ==
  /\ 2 * pos + 3 >= 2 * fr.lo
  /\ 2 * pos - 3 <= 2 * fr.hi

\* The loop of updateScatterPlacement: candidates 1..count, those nearer than
\* innerR skipped, the others written to data[0..placed-1].
Placed(count, innerR) ==
  SelectSeq([i \in 1..count |-> Candidate(i)], LAMBDA tx : ~(Abs(tx) < innerR))

\* updateScatterLOD(key, cam, frustum)
ScatterLOD(s, cam, fr) ==
  IF s.meshes = 0 \/ s.data = <<>> \/ s.instanceCount = 0 THEN s
  ELSE LET dist == Max2(1, s.lodDistance)
           doCull == s.culling /\ fr.on
           kept == SelectSeq(SubSeq(s.data, 1, s.instanceCount),
                             LAMBDA pos : ~(doCull /\ ~ScatterIntersects(fr, pos)))
           nearList == SelectSeq(kept, LAMBDA pos : Abs(cam - pos) < dist)
           farList == SelectSeq(kept, LAMBDA pos : ~(Abs(cam - pos) < dist))
       IN  [s EXCEPT !.count[s.meshes] =
              [near |-> Len(nearList), far |-> Len(farList)]]

\* updateScatterPlacement(key); its last statement calls updateScatterLOD when
\* createScatter was given a camera.
ScatterPlacement(s) ==
  IF s.data = <<>> \/ s.meshes = 0 THEN s
  ELSE LET count == Min2(MAX_SCATTER_PER_TYPE, Max2(0, s.slotCount))
           placed == Placed(count, s.innerR)
           t == [s EXCEPT
                  !.data = [k \in DOMAIN s.data |->
                              IF k <= Len(placed) THEN placed[k] ELSE s.data[k]],
                  !.instanceCount = Len(placed)]
       IN  IF s.camera THEN ScatterLOD(t, s.camPos, NoFrustum) ELSE t

\* disposeSlot(key)
disposeSlot(s) ==
  IF s.meshes = 0 THEN s
  ELSE [s EXCEPT !.group = @ \ {s.meshes}, !.meshes = 0, !.data = <<>>,
                 !.instanceCount = 0]

\* createScatterFromGlb(url, key) up to gltfLoader.load: an empty url loads
\* nothing.
createScatterFromGlb(s, url) ==
  IF url = "" THEN s
  ELSE [s EXCEPT !.pending = @ \cup {s.issued + 1}, !.issued = @ + 1]

ScatterFrame ==
  UNCHANGED <<forestVars, bakeVars, codec, sphereJob, stepVars, billboard,
              vertex, effect>>

\* reloadScatterSlot(key, url)
reloadScatterSlot(url) ==
  /\ scatter.pc = "created"
  /\ scatter.issued < MaxLoads
  /\ scatter' = [createScatterFromGlb(disposeSlot(scatter), url)
                   EXCEPT !.after = "reload"]
  /\ ScatterFrame

\* The onLoad callback of gltfLoader.load for load l: a new near / far pair
\* of MAX_SCATTER_PER_TYPE instances each, added to scatterGroup.
ScatterLoaded(l, hasMeshes) ==
  /\ l \in scatter.pending
  /\ scatter' =
       IF ~hasMeshes
         THEN [scatter EXCEPT !.pending = @ \ {l}, !.after = "load"]
         ELSE [ScatterPlacement(
                 [scatter EXCEPT
                    !.pending = @ \ {l},
                    !.meshes = l,
                    !.count[l] = [near |-> MAX_SCATTER_PER_TYPE,
                                  far |-> MAX_SCATTER_PER_TYPE],
                    !.data = Zeros(MAX_SCATTER_PER_TYPE),
                    !.group = @ \cup {l}])
                 EXCEPT !.after = "placement"]
  /\ ScatterFrame

\* The onError callback.
ScatterLoadFailed(l) ==
  /\ l \in scatter.pending
  /\ scatter' = [scatter EXCEPT !.pending = @ \ {l}, !.after = "failed"]
  /\ ScatterFrame

\* The caller changes slot.count and calls updateScatterPlacement(key).
updateScatterPlacement(c) ==
  /\ scatter.pc = "created"
  /\ scatter' = [ScatterPlacement([scatter EXCEPT !.slotCount = c])
                   EXCEPT !.after = "placement"]
  /\ ScatterFrame

updateScatterLOD(cam, fr) ==
  /\ scatter.pc = "created"
  /\ scatter' = [ScatterLOD([scatter EXCEPT !.camPos = cam], cam, fr)
                   EXCEPT !.after = "lod"]
  /\ ScatterFrame

\* createScatter has returned: the slot's initial load is in flight.
ScatterInputs ==
  {[NoScatter EXCEPT !.pc = "created", !.camera = cam, !.slotCount = c,
      !.innerR = r, !.lodDistance = 1, !.culling = cull,
      !.count = [l \in 1..MaxLoads |-> [near |-> 0, far |-> 0]],
      !.pending = {1}, !.issued = 1] :
     cam \in BOOLEAN, c \in 0..MAX_SCATTER_PER_TYPE, r \in {0, 2},
     cull \in BOOLEAN}

InitScatter ==
  /\ IdleForest
  /\ IdleBake
  /\ codec = NoCodec
  /\ sphereJob = NoSphereJob
  /\ IdleSteps
  /\ billboard = NoBillboard
  /\ vertex = NoVertex
  /\ scatter \in ScatterInputs
  /\ effect = NoEffect

ScatterFrustums == {NoFrustum, [on |-> TRUE, lo |-> 3, hi |-> 4]}

NextScatter ==
  \/ \E url \in {"", "a.glb"} : reloadScatterSlot(url)
  \/ \E l \in 1..MaxLoads, hasMeshes \in BOOLEAN : ScatterLoaded(l, hasMeshes)
  \/ \E l \in 1..MaxLoads : ScatterLoadFailed(l)
  \/ \E c \in 0..MAX_SCATTER_PER_TYPE : updateScatterPlacement(c)
  \/ \E cam \in {0, 2}, fr \in ScatterFrustums : updateScatterLOD(cam, fr)

SpecScatter == InitScatter /\ [][NextScatter]_vars

\* ------------------------------------- the OctahedralImpostorForest effect
\* src/OctahedralImpostorForest.tsx, useEffect (697-871).  Each run of the
\* effect has its own isCancelled and createdMesh; instancedMeshRef and
\* threeScene are shared by the runs.  The mesh a run creates is named by the
\* run's number (0: null).
MaxRuns == 3

EffectFrame ==
  UNCHANGED <<forestVars, bakeVars, codec, sphereJob, stepVars, billboard,
              vertex, scatter>>

Dispose(e, mesh) == [e EXCEPT !.disposals[mesh] = @ + 1]

\* The effect body: nothing without a scene; setupForest() runs up to its
\* await (Step 7) and the effect returns its cleanup function.
useEffect(hasScene, hasMeshes) ==
  /\ Len(effect.runs) < MaxRuns
  /\ Len(effect.runs) > 0 => effect.runs[Len(effect.runs)].cleaned
  /\ LET r == Len(effect.runs) + 1
         run == [pc |-> IF ~hasScene THEN "none"
                        ELSE IF ~hasMeshes THEN "returned" ELSE "await",
                 isCancelled |-> FALSE,
                 createdMesh |-> IF hasScene /\ hasMeshes THEN r ELSE 0,
                 lods |-> 0,
                 cleaned |-> ~hasScene,
                 cleanedAt |-> "none"]
     IN  effect' = [effect EXCEPT !.runs = Append(@, run),
                                  !.disposals = Append(@, 0)]
  /\ EffectFrame

\* setupForest after its await, adding the mesh whether or not the effect
\* was cleaned up meanwhile.
setupForestNoCancelCheck(e, r, resolved) ==
  [e EXCEPT !.runs[r].pc = "added",
            !.runs[r].lods = IF resolved THEN 2 ELSE 1,
            !.threeScene = @ \cup {r},
            !.ref = r]

\* setupForest from the point its await settles (Steps 7 to 9): resolved or
\* rejected, every isCancelled test disposes the mesh and returns.
setupForest(e, r, resolved) ==
  IF e.runs[r].isCancelled
    THEN [Dispose(e, r) EXCEPT !.runs[r].pc = "returned"]
    ELSE [e EXCEPT !.runs[r].pc = "added",
                   !.runs[r].lods = IF resolved THEN 2 ELSE 1,
                   !.threeScene = @ \cup {r},
                   !.ref = r]

AwaitSettles(r, resolved) ==
  /\ r \in 1..Len(effect.runs)
  /\ effect.runs[r].pc = "await"
  /\ effect' = setupForest(effect, r, resolved)
  /\ EffectFrame

\* The cleanup function of the latest run: on unmount or before the effect
\* runs again.
cleanup ==
  /\ Len(effect.runs) > 0
  /\ LET r == Len(effect.runs)
         run == effect.runs[r]
         e == IF effect.ref # 0
                THEN [Dispose(effect, effect.ref) EXCEPT
                        !.threeScene = @ \ {effect.ref}, !.ref = 0]
              ELSE IF run.createdMesh # 0
                THEN Dispose(effect, run.createdMesh)
              ELSE effect
     IN  /\ ~run.cleaned
         /\ effect' = [e EXCEPT !.runs[r].isCancelled = TRUE,
                                !.runs[r].createdMesh = 0,
                                !.runs[r].cleaned = TRUE,
                                !.runs[r].cleanedAt = run.pc]
  /\ EffectFrame

NextEffect ==
  \/ \E hasScene \in BOOLEAN, hasMeshes \in BOOLEAN :
       useEffect(hasScene, hasMeshes)
  \/ \E r \in 1..MaxRuns, resolved \in BOOLEAN : AwaitSettles(r, resolved)
  \/ cleanup

SpecEffect == Init /\ [][NextEffect]_vars

\* ------------------------------------------------- what a frame draws
Trees == 1..Len(posX)

\* Rows 0..count-1 of a tier's instance buffer are what the tier draws.
InTier(rows, n, i) == \E r \in 1..n : rows[r] = i

InNear(i) == InTier(nearRows, nearCount, i)

InMid(i) == InTier(impostorRows, impostorCount, i)

InFar(i) == InTier(megaRows, megaCount, i)

\* getLodCounts reading the draw counts of the meshes.
getLodCountsOfMeshes ==
  [near |-> nearCount, lod1 |-> impostorCount, lod2 |-> megaCount]

getLodCounts ==
  [near |-> _lastNearCount, lod1 |-> _lastLod1Count, lod2 |-> _lastLod2Count]

\* The camera distance update() measures, and the one the impostor shader
\* measures (from the centre it reads from the per-instance centre buffer).
Dist(i) == Abs(posX[i] - cameraPosition)

CenterDist(i) == Abs(allCenters[i] - cameraPosition)

PassedCull(i) == ~Culled(frustum, i)

\* A step of update(): the only operation that advances _frameCount.
UpdateStep == _frameCount' = _frameCount + 1

\* saturate(num / den) as a fraction n/d with 0 <= n <= d.  Division by zero
\* gives +inf, -inf or NaN; saturate of NaN is undefined, so both ends may show.
Saturate(num, den) ==
  IF den > 0 THEN {[n |-> Clamp(num, 0, den), d |-> den]}
  ELSE IF den < 0 THEN {[n |-> Clamp(-num, 0, -den), d |-> -den]}
  ELSE IF num > 0 THEN {[n |-> 1, d |-> 1]}
  ELSE IF num < 0 THEN {[n |-> 0, d |-> 1]}
  ELSE {[n |-> 0, d |-> 1], [n |-> 1, d |-> 1]}

\* fadeT of the near material's alphaNode: the share of pixels the dither keeps.
NearFade(i) ==
  Saturate(uNearLodDist + uNearFadeRange - Dist(i), uNearFadeRange)

\* fadeT of the impostor material's colour node.
MidFade(i) ==
  Saturate(CenterDist(i) - (_uLodDist - _uFadeRange), _uFadeRange)

NearCoverage(i) == IF InNear(i) THEN NearFade(i) ELSE {[n |-> 0, d |-> 1]}

MidCoverage(i) == IF InMid(i) THEN MidFade(i) ELSE {[n |-> 0, d |-> 1]}

\* fadeT of the mega-impostor material's colour node: the same colour node
\* with lodDistUniform = _uLod2Dist.
FarFade(i) ==
  Saturate(CenterDist(i) - (_uLod2Dist - _uFadeRange), _uFadeRange)

FarCoverage(i) == IF InFar(i) THEN FarFade(i) ELSE {[n |-> 0, d |-> 1]}

FracLeq(a, b) == a.n * b.d <= b.n * a.d

\* The tier buffers are those update() computes for the current thresholds.
FrameIsCurrent ==
  /\ _frameCount > 0
  /\ \A i \in Trees :
       /\ InNear(i) <=> (PassedCull(i) /\ NearTest(DistSq(i, cameraPosition)))
       /\ InMid(i) <=> (PassedCull(i) /\ Lod1Test(DistSq(i, cameraPosition)))
       /\ InFar(i) <=> (PassedCull(i) /\ Lod2Test(DistSq(i, cameraPosition)))

\* ------------------------------------------------------------------ claims
\* C1: in every update() made with a frustum, an instance whose bounding
\* sphere (centre allCenters[i], radius impostorScale / 2) does not intersect
\* the frustum is in none of the Near, Mid and Far tiers of that frame.
C1_CulledInNoTier ==
  [][UpdateStep =>
       \A i \in Trees :
         (frustum'.on /\ ~IntersectsSphere(frustum', allCenters[i], cullRadius))
           => (~InNear(i)' /\ ~InMid(i)' /\ ~InFar(i)')]_vars

\* C2: with 0 <= fadeRange <= lodDistance and lodDistance + fadeRange <=
\* lod2Distance - fadeRange, an instance that passes the cull at a distance
\* below lodDistance - fadeRange is in the Near tier only, and a forest of one
\* such instance reports near = 1, lod1 = 0, lod2 = 0.
C2_Precondition(i) ==
  /\ PassedCull(i)
  /\ 0 <= _fadeRange /\ _fadeRange <= _lodDist
  /\ _lodDist + _fadeRange <= _lod2Dist - _fadeRange
  /\ Dist(i) < _lodDist - _fadeRange

C2_NearOnly ==
  [][UpdateStep =>
       \A i \in Trees :
         C2_Precondition(i)' =>
           /\ InNear(i)' /\ ~InMid(i)' /\ ~InFar(i)'
           /\ Len(posX) = 1 =>
                getLodCounts' = [near |-> 1, lod1 |-> 0, lod2 |-> 0]]_vars

C2_Witness ==
  /\ _frameCount > 0 /\ setCalls = 0
  /\ Len(posX) = 1
  /\ C2_Precondition(1)
  /\ frustum.on
  /\ getLodCounts = [near |-> 1, lod1 |-> 0, lod2 |-> 0]

\* C3: with fadeRange > 0 and lodDistance < lod2Distance - fadeRange, an
\* instance that passes the cull at distance exactly lodDistance is in both
\* the Near and the Mid tier, and a forest of one such instance reports
\* near = 1 and lod1 = 1.
C3_BothAtLodDistance ==
  [][UpdateStep =>
       \A i \in Trees :
         (/\ PassedCull(i)'
          /\ _fadeRange > 0 /\ _lodDist < _lod2Dist - _fadeRange
          /\ Dist(i)' = _lodDist)
           => /\ InNear(i)' /\ InMid(i)'
              /\ Len(posX) = 1 =>
                   (getLodCounts'.near = 1 /\ getLodCounts'.lod1 = 1)]_vars

\* C4: with 0 < fadeRange <= lodDistance and lodDistance + fadeRange <=
\* lod2Distance - fadeRange, for an instance that passes the cull short of the
\* Mid-to-Far switch: no frame shows it with zero Near coverage and zero Mid
\* coverage, and from one frame to the next, when its distance has not
\* decreased, its Near coverage has not increased and its Mid coverage has
\* not decreased.
C4_Journey(i) ==
  /\ PassedCull(i)
  /\ 0 < _fadeRange /\ _fadeRange <= _lodDist
  /\ _lodDist + _fadeRange <= _lod2Dist - _fadeRange
  /\ Dist(i) < _lod2Dist - _fadeRange

C4_NoPop ==
  [][UpdateStep =>
       \A i \in Trees :
         C4_Journey(i)' =>
           /\ \A a \in NearCoverage(i)', b \in MidCoverage(i)' :
                ~(a.n = 0 /\ b.n = 0)
           /\ (FrameIsCurrent /\ C4_Journey(i) /\ Dist(i) <= Dist(i)') =>
                /\ \A a \in NearCoverage(i), b \in NearCoverage(i)' :
                     FracLeq(b, a)
                /\ \A a \in MidCoverage(i), b \in MidCoverage(i)' :
                     FracLeq(a, b)]_vars

C5_NearMidWindow(i) ==
  /\ PassedCull(i)
  /\ Abs(_lodDist - _fadeRange) <= Dist(i)
  /\ Dist(i) < _lodDist + _fadeRange
  /\ Dist(i) < _lod2Dist - _fadeRange

C9_NothingBuiltOnReject ==
  pc = "rejected" =>
    /\ group = NoGroup
    /\ posX = <<>> /\ allCenters = <<>>
    /\ _compactNear = <<>> /\ nearRows = <<>> /\ impostorRows = <<>>
    /\ compactCenters = <<>> /\ wireframeRows = <<>>
    /\ megaRows = <<>> /\ compactCenters2 = <<>>
    /\ nearCount = 0 /\ impostorCount = 0 /\ wireframeCount = 0
    /\ megaCount = 0
    /\ bakeOut.returned = {}

C9_Witness ==
  /\ pc = "rejected"
  /\ bakeOut.called /\ bakeOut.threw
  /\ group = NoGroup

\* Cell (row, col) of a pass was rendered into its ss x ss sub-rectangle,
\* with at least one mesh drawn.
CellFilled(pass, row, col, x0, y0, ss) ==
  \E k \in 1..Len(pass) :
    /\ pass[k].row = row /\ pass[k].col = col
    /\ pass[k].den > 0
    /\ pass[k].x0N = x0 * pass[k].den
    /\ pass[k].y0N = y0 * pass[k].den
    /\ pass[k].ssN = ss * pass[k].den
    /\ pass[k].drawn > 0

QuadBake ==
  /\ bakeOut.called
  /\ bakeIn.scene = <<QuadMesh>>
  /\ bakeIn.spritesPerSide = 2 /\ bakeIn.textureSize = 64
  /\ bakeIn.gl

Atlas64x4 ==
  /\ ~bakeOut.threw
  /\ \E r \in bakeOut.returned :
       /\ r.colorTex.size = 64 /\ r.normalTex.size = 64
       /\ Len(r.colorTex.cells) = 4 /\ Len(r.normalTex.cells) = 4
       /\ \A row \in 0..1, col \in 0..1 :
            /\ CellFilled(r.colorTex.cells, row, col, col * 32, row * 32, 32)
            /\ CellFilled(r.normalTex.cells, row, col, col * 32, row * 32, 32)

\* C6 (as claimed): the bake of a hierarchy whose only mesh is a flat
\* two-triangle quad, with spritesPerSide 2 and textureSize 64, completes and
\* returns a 64 x 64 atlas whose 4 cells of 32 x 32 have all been rendered.
C6_QuadBakeFillsAtlas == QuadBake => Atlas64x4

\* C6 (amended): that bake throws "No meshes to bake" before any cell is
\* rendered and returns nothing; the same bake of a hierarchy that holds a
\* mesh with vertices that isFlatGeometry lets through returns a 64 x 64
\* atlas whose 4 cells of 32 x 32 have all been rendered.
HasSolidMesh(scene) ==
  \E k \in 1..Len(scene) : scene[k].pos /\ ~IsFlatGeometry(scene[k])

C6_QuadRejectedSolidFills ==
  (/\ bakeOut.called
   /\ bakeIn.spritesPerSide = 2 /\ bakeIn.textureSize = 64 /\ bakeIn.gl)
  => /\ bakeIn.scene = <<QuadMesh>> =>
          /\ bakeOut.threw /\ bakeOut.error = "No meshes to bake"
          /\ bakeOut.albedo = <<>> /\ bakeOut.normal = <<>>
          /\ bakeOut.returned = {}
     /\ HasSolidMesh(bakeIn.scene) => Atlas64x4

C6_Witness ==
  /\ QuadBake
  /\ bakeOut.threw /\ bakeOut.error = "No meshes to bake"

\* C7: when no eligible mesh is left after the filter, bakeAtlas throws
\* before the canvas, its WebGL2 context or any GPU resource is created,
\* renders nothing and returns no texture.
NoEligibleMesh == Len(FilterMeshes(bakeIn.scene)) = 0

C7_ThrowsBeforeAnyResource ==
  (bakeOut.called /\ NoEligibleMesh) =>
    /\ bakeOut.threw /\ bakeOut.error = "No meshes to bake"
    /\ ~bakeOut.canvas /\ ~bakeOut.gpu
    /\ bakeOut.albedo = <<>> /\ bakeOut.normal = <<>>
    /\ bakeOut.returned = {}

C7_Witness ==
  /\ bakeOut.called /\ NoEligibleMesh
  /\ bakeIn.scene # <<>> /\ bakeIn.gl
  /\ bakeOut.threw /\ ~bakeOut.canvas

\* C8: a bake with a non-positive textureSize or a non-positive
\* spritesPerSide throws before any cell is rendered and returns no atlas.
C8_NonPositiveSizeRejected ==
  (bakeOut.called /\ (bakeIn.textureSize <= 0 \/ bakeIn.spritesPerSide <= 0))
    => /\ bakeOut.threw
       /\ bakeOut.albedo = <<>> /\ bakeOut.normal = <<>>
       /\ bakeOut.returned = {}

\* C10: for both variants of the codec and every cell (i, j) of the grid,
\* encoding the direction decoded from (i, j) and scaling it to grid units
\* resolves to the cell (i, j).
C10_RoundTrip == codec.pc = "encoded" => codec.cell = codec.gi

\* C11: for every hierarchy and every flat proxy mesh hung under any of its
\* nodes, the bounding sphere the bake computes for the hierarchy with the
\* proxy equals the one it computes for the hierarchy without it.
C11_ProxyLeavesSphere ==
  sphereJob.pc = "proxied" =>
    /\ sphereJob.proxied.threw = sphereJob.plain.threw
    /\ sphereJob.proxied.sphere = sphereJob.plain.sphere

\* C19: with bakeOnlyLargestMesh off, the meshes whose spheres are unioned
\* into the bake bounding sphere are exactly the meshes rendered into the
\* atlas, at any depth of the hierarchy.
ToSet(q) == {q[k] : k \in 1..Len(q)}

C19_SphereCoversRendered ==
  (sphereJob.pc # "idle" /\ sphereJob.pc # "scene" /\ ~sphereJob.largest) =>
    ToSet(sphereJob.plain.unioned) = ToSet(sphereJob.plain.meshes)

\* What one frame draws, as a function of the instance table, the three LOD
\* parameters, the camera and the frustum alone: per tier, the instances
\* that pass the cull and the tier's distance test, in table order.
FrameOf(px, radius, lodDist, lod2Dist, fade, cam, fr) ==
  LET t == Thresholds(lodDist, lod2Dist, fade)
      ids == [i \in 1..Len(px) |-> i]
      seen(i) == ~(fr.on /\ ~IntersectsSphere(fr, px[i], radius))
      d2(i) == (px[i] - cam) * (px[i] - cam)
  IN  [near |-> SelectSeq(ids, LAMBDA i : seen(i) /\ d2(i) < t.outer),
       lod1 |-> SelectSeq(ids, LAMBDA i :
                  seen(i) /\ d2(i) >= t.inner /\ d2(i) < t.inner2),
       lod2 |-> SelectSeq(ids, LAMBDA i : seen(i) /\ d2(i) >= t.inner2)]

Prefix(rows, n) == SubSeq(rows, 1, n)

\* C12: whatever updates and setter calls came before, an update() leaves, in
\* the tier counts and in rows 0..count-1 of every tier buffer, exactly what
\* the current lodDistance, lod2Distance and fadeRange, the camera and the
\* frustum of that call determine.
C12_Stateless ==
  [][UpdateStep =>
       \A f \in {FrameOf(posX, cullRadius, _lodDist, _lod2Dist, _fadeRange,
                          cameraPosition', frustum')} :
           /\ getLodCounts' =
                [near |-> Len(f.near), lod1 |-> Len(f.lod1), lod2 |-> Len(f.lod2)]
           /\ nearCount' = Len(f.near)
           /\ Prefix(nearRows', nearCount') = f.near
           /\ impostorCount' = Len(f.lod1)
           /\ Prefix(impostorRows', impostorCount') = f.lod1
           /\ Prefix(compactCenters', impostorCount') = f.lod1
           /\ wireframeCount' = Len(f.lod1)
           /\ Prefix(wireframeRows', wireframeCount') = f.lod1
           /\ megaCount' = Len(f.lod2)
           /\ Prefix(megaRows', megaCount') = f.lod2
           /\ Prefix(compactCenters2', megaCount') = f.lod2]_vars

\* A second frame, after a setter call, whose buffers still hold rows of the
\* earlier frame beyond the counts.
C12_Witness ==
  /\ _frameCount >= 2 /\ setCalls > 0
  /\ FrameIsCurrent
  /\ \E r \in 1..Len(impostorRows) : r > impostorCount /\ impostorRows[r] # 0
  /\ nearCount + impostorCount + megaCount > 0

\* C13: a setter leaves the instance table, the group and the baked atlas as
\* they are and sets the thresholds a forest constructed with the new
\* lodDistance / lod2Distance / fadeRange would have; the update() that
\* follows puts each instance in the tiers such a forest would put it in.
SetterStep == setCalls' = setCalls + 1

AsConstructed(lodDist, lod2Dist, fade, i, cam) ==
  LET t == Thresholds(lodDist, lod2Dist, fade)
      distSq == DistSq(i, cam)
  IN  [near |-> distSq < t.outer,
       lod1 |-> distSq >= t.inner /\ distSq < t.inner2,
       lod2 |-> distSq >= t.inner2]

C13_SettersLikeConstructor ==
  [][/\ SetterStep =>
          /\ UNCHANGED <<posX, allCenters, cullRadius, group, bakeOut, tierVars>>
          /\ <<innerDistSq', outerDistSq', inner2DistSq', outer2DistSq'>> =
               LET t == Thresholds(_lodDist', _lod2Dist', _fadeRange')
               IN  <<t.inner, t.outer, t.inner2, t.outer2>>
     /\ (UpdateStep /\ setCalls > 0) =>
          \A i \in Trees :
            LET c == AsConstructed(_lodDist, _lod2Dist, _fadeRange, i,
                                   cameraPosition')
            IN  /\ InNear(i)' <=> (PassedCull(i)' /\ c.near)
                /\ InMid(i)' <=> (PassedCull(i)' /\ c.lod1)
                /\ InFar(i)' <=> (PassedCull(i)' /\ c.lod2)]_vars

\* A frame after a setter call in which an instance is in a tier that the
\* forest's initial parameters would not have put it in.
C13_Witness ==
  /\ setCalls > 0 /\ FrameIsCurrent
  /\ <<_lodDist, _lod2Dist, _fadeRange>> #
       <<opts.lodDistance, opts.lod2Distance, opts.fadeRange>>
  /\ \E i \in Trees :
       LET c == AsConstructed(opts.lodDistance, opts.lod2Distance,
                              opts.fadeRange, i, cameraPosition)
       IN  PassedCull(i) /\ (InMid(i) # c.lod1 \/ InFar(i) # c.lod2)

\* C15: getLodCounts() is all zero before the first update(); an update()
\* makes it the number of instances it put in each tier, which is the draw
\* count it set on that tier's meshes and at most the number of instances;
\* nothing but an update() changes it.
NoCounts == [near |-> 0, lod1 |-> 0, lod2 |-> 0]

RowsOf(rows, n, i) == {r \in 1..n : rows[r] = i}

C18_DenseTierBuffers ==
  [][UpdateStep =>
       /\ \A i \in Trees :
            LET distSq == DistSq(i, cameraPosition')
            IN  /\ Cardinality(RowsOf(impostorRows', impostorCount', i)) =
                     IF PassedCull(i)' /\ Lod1Test(distSq) THEN 1 ELSE 0
                /\ Cardinality(RowsOf(megaRows', megaCount', i)) =
                     IF PassedCull(i)' /\ Lod2Test(distSq) THEN 1 ELSE 0
       /\ \A r \in 1..impostorCount' :
            impostorRows'[r] \in Trees /\ compactCenters'[r] = impostorRows'[r]
       /\ \A r \in 1..megaCount' :
            megaRows'[r] \in Trees /\ compactCenters2'[r] = megaRows'[r]]_vars

\* A frame whose lod1 buffer is compacted: its first row holds the second
\* instance, the first instance being drawn by the lod2 tier only.
C18_Witness ==
  /\ FrameIsCurrent
  /\ impostorCount = 1 /\ impostorRows[1] = 2 /\ compactCenters[1] = 2
  /\ megaCount = 1 /\ megaRows[1] = 1 /\ compactCenters2[1] = 1

\* C14: in each pass bakeAtlas renders every cell (row, col) of the grid
\* exactly once, into the rectangle with origin (col * s, row * s) and size
\* s = textureSize / spritesPerSide; a pass is read back only once all its
\* cells are rendered, and textures are returned only after both read-backs,
\* holding every cell.
CellsOf(run) ==
  (0..(run.input.spritesPerSide - 1)) \X (0..(run.input.spritesPerSide - 1))

TimesRendered(pass, cell) ==
  Cardinality({k \in 1..Len(pass) : pass[k].row = cell[1] /\ pass[k].col = cell[2]})

InItsRectangle(call, run) ==
  /\ <<call.row, call.col>> \in CellsOf(run)
  /\ call.den = run.input.spritesPerSide
  /\ call.x0N = call.col * run.input.textureSize
  /\ call.y0N = call.row * run.input.textureSize
  /\ call.ssN = run.input.textureSize

PassComplete(pass, run) ==
  /\ \A cell \in CellsOf(run) : TimesRendered(pass, cell) = 1
  /\ \A k \in 1..Len(pass) : InItsRectangle(pass[k], run)

C14_EveryCellOncePerPass ==
  /\ \A cell \in CellsOf(bakeRun) :
       TimesRendered(bakeRun.albedo, cell) <= 1
         /\ TimesRendered(bakeRun.normal, cell) <= 1
  /\ \A k \in 1..Len(bakeRun.albedo) : InItsRectangle(bakeRun.albedo[k], bakeRun)
  /\ \A k \in 1..Len(bakeRun.normal) : InItsRectangle(bakeRun.normal[k], bakeRun)
  /\ "albedo" \in bakeRun.read =>
       PassComplete(bakeRun.albedo, bakeRun)
         /\ bakeRun.colorPixels = bakeRun.albedo
  /\ "normal" \in bakeRun.read =>
       /\ "albedo" \in bakeRun.read
       /\ PassComplete(bakeRun.normal, bakeRun)
       /\ bakeRun.normalPixels = bakeRun.normal
  /\ \A r \in bakeRun.returned :
       /\ bakeRun.pc = "returned"
       /\ bakeRun.read = {"albedo", "normal"}
       /\ r.colorTex.cells = bakeRun.albedo
       /\ r.normalTex.cells = bakeRun.normal

C14_Witness ==
  /\ bakeRun.pc = "returned" /\ bakeRun.returned # {}
  /\ bakeRun.input.spritesPerSide = MaxSprites
  /\ bakeRun.input.textureSize = 64
  /\ Len(bakeRun.albedo) = MaxSprites * MaxSprites
  /\ Len(bakeRun.normal) = MaxSprites * MaxSprites

\* C17: every white placeholder texture bound during a bake was created on
\* that bake's own WebGL2 context, and the cache hands each context only the
\* texture created on it.
C17_PlaceholderOfOwnContext ==
  /\ \A t \in bakeRun.bound : t.madeOn = bakeRun.ctx
  /\ \A c \in DOMAIN _whiteTexByCtx : _whiteTexByCtx[c].madeOn = c

C17_Witness ==
  /\ bakeRun.ctx = 2 /\ bakeRun.pc = "returned"
  /\ bakeRun.bound = {[madeOn |-> 2]}
  /\ DOMAIN _whiteTexByCtx = {1, 2}

\* C20: for every camera direction, below the horizon included, the floor
\* cell s1 and the neighbour cells s2 and s3 of the vertex stage have integer
\* coordinates in 0..spritesPerSide-1.
InGrid(cell, N) == cell[1] \in 0..(N - 1) /\ cell[2] \in 0..(N - 1)

C20_CellsInGrid ==
  billboard.pc = "done" =>
    /\ InGrid(billboard.vS1, billboard.N)
    /\ InGrid(billboard.vS2, billboard.N)
    /\ InGrid(billboard.vS3, billboard.N)

C20_Witness ==
  /\ billboard.pc = "done" /\ billboard.hemi
  /\ billboard.dir[2] < 0
  /\ billboard.vS2 # billboard.vS1
  /\ billboard.vS3 # billboard.vS2
  /\ billboard.vS3 # billboard.vS1

\* C16: once dispose() has been called, both atlas textures are disposed and
\* the forest group holds none of the near, impostor, wireframe and
\* mega-impostor meshes, whatever is called afterwards.
C16_DisposedAndDetached ==
  disposed # {} =>
    /\ {"colorTex", "normalTex"} \subseteq disposed
    /\ group.children \cap ForestMeshes(opts.scene) = {}

C16_Witness ==
  /\ disposed # {} /\ group.created
  /\ _frameCount > 0 /\ nearCount + impostorCount + megaCount > 0
  /\ "wireframeMat" \in disposed

\* The grid position of the vertex, grid = encode(camDir) * nm1, and the
\* squared distance from it to a cell, both in units of 1 / den.
GridPos(b) ==
  LET enc == encodeDirection(b.hemi, b.dir)
      frac == GridFract(enc, b.N - 1)
  IN  <<b.vS1[1] * enc.den + frac[1], b.vS1[2] * enc.den + frac[2]>>

CellDistSq(b, cell) ==
  LET p == GridPos(b)
      dx == cell[1] * b.vWeight.den - p[1]
      dy == cell[2] * b.vWeight.den - p[2]
  IN  dx * dx + dy * dy

Candidates(b) ==
  <<[cell |-> b.vS1, weight |-> b.vWeight.x],
    [cell |-> b.vS2, weight |-> b.vWeight.y],
    [cell |-> b.vS3, weight |-> b.vWeight.z]>>

\* C21: the three blend weights are non-negative and sum to 1, and a
\* candidate cell strictly nearer to the grid position than the other two
\* carries a weight at least as high as theirs.
C21_NearestWeightedHighest ==
  billboard.pc = "done" =>
    LET c == Candidates(billboard)
    IN  /\ \A k \in 1..3 : c[k].weight >= 0
        /\ c[1].weight + c[2].weight + c[3].weight = billboard.vWeight.den
        /\ \A k \in 1..3 :
             (\A j \in 1..3 \ {k} :
                CellDistSq(billboard, c[k].cell)
                  < CellDistSq(billboard, c[j].cell))
             => \A j \in 1..3 : c[k].weight >= c[j].weight

\* C22: with the camera at the instance centre, or with the view direction
\* parallel to the plane of one of the three sprites, the vertex stage still
\* yields a unit camera direction, a unit basis and three finite sample UVs.
ViewParallelToSprite ==
  vertex.viewDir = "unit" /\ \E k \in 1..3 : vertex.denom[k] = 0

C22_StableFallback ==
  vertex.pc = "done" /\ (vertex.cam = ZeroVec \/ ViewParallelToSprite) =>
    /\ vertex.camDir = "unit"
    /\ vertex.basis = "unit"
    /\ \A k \in 1..3 : vertex.vUV[k] = "finite"

\* C23: once the forest is built, and after any setLodDistance and
\* setFadeRange calls, the near material's fade-out uniforms equal the
\* lodDistance and fadeRange of the CPU thresholds and of the mid-tier
\* fade-in; and in a frame computed for the current thresholds no instance
\* that passed the cull at a distance below lod2Distance - fadeRange has zero
\* coverage in both Near and Mid.
C23_NearFadeFollowsSetters ==
  group.created =>
    /\ uNearLodDist = _lodDist /\ uNearFadeRange = _fadeRange
    /\ uNearLodDist = _uLodDist /\ uNearFadeRange = _uFadeRange
    /\ FrameIsCurrent =>
         \A i \in Trees :
           (PassedCull(i) /\ Dist(i) < _lod2Dist - _fadeRange) =>
             \A a \in NearCoverage(i), b \in MidCoverage(i) :
               ~(a.n = 0 /\ b.n = 0)

\* C24: for non-negative lodDistance, lod2Distance and fadeRange, an update()
\* puts an instance that passed the cull at distance d in Near exactly when
\* d < lodDistance + fadeRange, in Mid only when d >= lodDistance - fadeRange,
\* and in Far exactly when d >= lod2Distance - fadeRange.
C24_SquaredAsUnsquared ==
  [][UpdateStep =>
       \A i \in Trees :
         (/\ PassedCull(i)'
          /\ _lodDist >= 0 /\ _lod2Dist >= 0 /\ _fadeRange >= 0) =>
           /\ InNear(i)' <=> Dist(i)' < _lodDist + _fadeRange
           /\ InMid(i)' => Dist(i)' >= _lodDist - _fadeRange
           /\ InFar(i)' <=> Dist(i)' >= _lod2Dist - _fadeRange]_vars

\* C25: with 0 < fadeRange and lodDistance + fadeRange <= lod2Distance -
\* fadeRange, an instance that passed the cull at a distance in
\* [lod2Distance - fadeRange, lod2Distance + fadeRange] is, in that frame, in
\* Mid with non-zero coverage or in Far with non-zero coverage.
C25_Window(i) ==
  /\ PassedCull(i)
  /\ 0 < _fadeRange /\ 0 <= _lodDist
  /\ _lodDist + _fadeRange <= _lod2Dist - _fadeRange
  /\ _lod2Dist - _fadeRange <= Dist(i)
  /\ Dist(i) <= _lod2Dist + _fadeRange

C25_NoPopAtLod2 ==
  [][UpdateStep =>
       \A i \in Trees :
         C25_Window(i)' =>
           \A a \in MidCoverage(i)', b \in FarCoverage(i)' :
             ~(a.n = 0 /\ b.n = 0)]_vars

\* C26: in every update(), instance i is culled, and its camera distance is
\* measured, from its bounding-sphere centre allCenters[i], the centre
\* written to the tier centre buffers: it is in a tier exactly when the
\* sphere around allCenters[i] passes the frustum and the squared distance
\* from allCenters[i] to the camera passes that tier's test.
C26_CentredOnSphereCentre ==
  [][UpdateStep =>
       \A i \in Trees :
         LET seen == ~(frustum'.on
                       /\ ~IntersectsSphere(frustum', allCenters[i], cullRadius))
             distSq == (allCenters[i] - cameraPosition')
                         * (allCenters[i] - cameraPosition')
         IN  /\ InNear(i)' <=> (seen /\ NearTest(distSq))
             /\ InMid(i)' <=> (seen /\ Lod1Test(distSq))
             /\ InFar(i)' <=> (seen /\ Lod2Test(distSq))]_vars

\* C27: for non-negative lodDistance, lod2Distance and fadeRange, whatever
\* setter calls came before, an update() puts every instance that passed the
\* cull in at least one of Near, Mid and Far.
C27_InSomeTier ==
  [][UpdateStep =>
       \A i \in Trees :
         (/\ PassedCull(i)'
          /\ _lodDist >= 0 /\ _lod2Dist >= 0 /\ _fadeRange >= 0) =>
           (InNear(i)' \/ InMid(i)' \/ InFar(i)')]_vars

\* A frame after a setter call that left fadeRange above lodDistance or above
\* lod2Distance, with an instance short of the squared lower edge of Mid and
\* one that the frustum culled.
C27_Witness ==
  /\ FrameIsCurrent /\ setCalls > 0
  /\ (_fadeRange > _lodDist \/ _fadeRange > _lod2Dist)
  /\ \E i \in Trees :
       PassedCull(i) /\ DistSq(i, cameraPosition) < innerDistSq /\ InNear(i)
  /\ \E i \in Trees : ~PassedCull(i)

\* C28: whatever reloads and load completions came before, scatterGroup holds
\* at most one near / far pair of the slot, and it is the pair
\* scatterMeshes[key] refers to.
C28_OnePairPerSlot ==
  scatter.pc = "created" =>
    scatter.group \subseteq (IF scatter.meshes = 0 THEN {} ELSE {scatter.meshes})

\* C29: after updateScatterPlacement(key) and after updateScatterLOD(key, cam,
\* frustum), the draw counts of the slot's near and far meshes sum to at most
\* scatterInstanceCount[key].
C29_DrawnAtMostPlaced ==
  (scatter.after \in {"placement", "lod"} /\ scatter.meshes # 0) =>
    scatter.count[scatter.meshes].near + scatter.count[scatter.meshes].far
      <= scatter.instanceCount

\* C30: once the cleanup function of an effect run has run, the mesh that run
\* created is not in the scene, whether cleanup came before or after the
\* await of setupForest settled and whether the await resolved or rejected.
C30_CleanedRunLeavesNoMesh ==
  \A r \in 1..Len(effect.runs) :
    effect.runs[r].cleaned => r \notin effect.threeScene

\* A run cleaned up while suspended at its await, whose await has settled
\* since, next to a later run whose mesh is in the scene.
C30_Witness ==
  \E r \in 1..Len(effect.runs) :
    /\ effect.runs[r].cleaned
    /\ effect.runs[r].cleanedAt = "await"
    /\ effect.runs[r].pc = "returned"
    /\ \E q \in 1..Len(effect.runs) : q > r /\ q \in effect.threeScene

====
